---- MODULE Spec2Model ----
(***************************************************************************)
(* A model of the hypetrigger frame-dispatch core:                         *)
(*   - Hypetrigger::run (src/lib-rust/src/pipeline_simple.rs): spawns the   *)
(*     decoder, the scoped stderr thread that parses the output size, and   *)
(*     the loop that reads frames from stdout and hands them to triggers;   *)
(*   - AsyncTrigger / TriggerThread (src/lib-rust/src/async_trigger.rs):    *)
(*     the bounded channel, the worker loop and the stop protocol.          *)
(***************************************************************************)
EXTENDS Integers, Sequences, FiniteSets, TLC

\* ---------------------------------------------------------------- bounds

\* Most frames the decoder writes to stdout in the small configurations.
MaxFrames == 2

\* Most triggers registered with add_trigger.
MaxTriggers == 2

\* Most pipelines run one after the other against the same worker.
MaxRuns == 2

\* Most threads that run TesseractTriggers sharing one engine handle.
MaxOcrThreads == 2

\* Most ocr calls one thread makes.
MaxOcrCalls == 2

\* Most decoder processes a Pipeline spawns over its life.
MaxProcs == 3

\* Longest side, in pixels, of the images given to Crop::apply and
\* ensure_minimum_size.
MaxSide == 4

\* Largest min_size given to ensure_minimum_size.
MaxMinSize == 5

\* Most pixels of the images given to the threshold filter.
MaxPixels == 2

\* Longest side of the images whose pixels Crop::apply copies.
MaxCropSide == 2

\* Longest side of the images given to ensure_square, and largest size
\* given to ensure_size.
MaxSquareSide == 4

\* Threads that register debugger steps.
MaxDebugThreads == 2

\* Most register_step calls of one thread.
MaxSteps == 3

\* Most classes of the classifier's output tensor.
MaxClasses == 3

\* Longest byte vector given to rgb24_to_rgba32.
MaxBytes == 6

\* Frames the decoder writes beyond the channel capacity in the
\* backpressure configuration (so that a send meets a full queue).
ExtraFrames == 2

\* ------------------------------------------------------- program constants

\* std::sync::mpsc::sync_channel::<TriggerCommand>(100)
QueueCapacity == 100

\* let mut frame_num = 0
FirstFrameNum == 0

\* const CHANNELS: u32 = 3
CHANNELS == 3

\* ------------------------------------------------------------ the state

VARIABLES
    \* configuration (fixed during a run)
    triggers,         \* Hypetrigger.triggers: sequence of trigger kinds
    stream_frames,    \* how many full frames the decoder has to offer
    fps,              \* Hypetrigger.fps, the sampling rate
    \* the decoder child process
    ffmpeg_child,     \* "none" | "running" | "exited" | "killed" | "reaped"
    frames_written,   \* full frames read so far from the decoder's stdout
    \* the stderr thread (spawn_ffmpeg_stderr_thread)
    stderr_pc,        \* "none" | "reading" | "exited" | "panicked"
    current_section,  \* "" | "Output"
    output_size,      \* None or <<w, h>>
    size_chan,        \* the (u32, u32) channel: messages in flight
    size_tx,          \* TRUE while output_size_tx has not been dropped
    unlogged,         \* lines the stderr thread read and did not print
    \* Hypetrigger::run on the calling thread
    run_pc,           \* position in run
    run_result,       \* "none" | "Ok" | an error
    scope_result,     \* what the thread::scope closure returned
    output_dims,      \* (output_width, output_height) as received
    buf_size,         \* length of `buffer`, None before it is allocated
    frame_num,        \* let mut frame_num = 0
    trig,             \* index of the trigger the for loop is at
    calls,            \* per trigger: on_frame invocations by the dispatcher
    seen_frame,       \* per trigger: frame_num of the last frame handed to it
    last_result,      \* per trigger: what its last on_frame returned
    read_pos,         \* bytes of the decoder's stdout consumed by read_exact
    image,            \* the image of the current frame, None before the first
    read_failed,      \* TRUE once read_exact returned an error other than EOF
    timestamp,        \* Frame.timestamp of the frame being dispatched
    \* the TriggerThread
    queue,            \* the sync_channel buffer: sequence of TriggerCommand
    rx_alive,         \* TRUE while the worker still holds the Receiver
    thread_pc,        \* "recv" | "run" | "exited"
    command,          \* the command the worker is executing
    ran,              \* per trigger: inner on_frame executions on the worker
    ran_frame,        \* per trigger: frame_num of the last inner execution
    ran_last,         \* <<frame_num, trigger>> of the last packet executed
    inner_log,        \* frame_nums whose inner on_frame error the worker printed
    accepted,         \* packets for which AsyncTrigger::on_frame returned Ok
    \* TriggerThread::stop and other holders of the public tx
    stop_pc,          \* "idle" | "join" | "done"
    stop_result,      \* "none" | "Ok" | "Err"
    early_stop,       \* TRUE once a Stop was sent before run had returned
    tx_clone,         \* another holder of the public tx: "none" | "held" | "used"
    stop_window,      \* frame counts at which the owner may call stop mid-run
    \* what callers do around a run
    quit_sent,        \* TRUE once `q\n` has been written to the decoder's stdin
    runs,             \* pipelines run so far, the current one included
    trigger_tx,       \* the runner_tx of the pipeline's AsyncTriggers: "held" | "dropped"
    \* the OCR engine handle shared by TesseractTriggers
    slot,             \* the Option<Tesseract>: "Some" | "None"
    mutex,            \* the thread that holds the lock around the slot, 0 when free
    ocr_pc,           \* per thread: position in TesseractTrigger::ocr
    ocr_result,       \* per thread: what its last ocr call returned
    ocr_calls,        \* per thread: ocr calls started
    \* Pipeline (pipeline.rs): the job table and the decoder processes
    jobs,             \* Pipeline.jobs: per job id the pid of its decoder, 0 when absent
    procs,            \* decoder processes spawned so far: "running" | "exited" | "reaped"
    start_result,     \* what the last start_job call returned
    stopping,         \* pid of the job stop_job is joining, 0 when none
    runner_threads,   \* Pipeline.runner_threads: per runner name, threads spawned
    stop_job_result,  \* the last stop_job call: "none" | "Ok" | "Panic"
    stop_keys,        \* stop_all_jobs: the keys it still has to stop
    stop_all_result,  \* stop_all_jobs: "none" | "running" | "Ok" | "Panic"
    \* the Debugger behind its Arc<RwLock<..>> (debugger.rs)
    debugger_state,   \* Debugger.state: "Paused" | "Resumed"
    lock_readers,     \* the threads that hold a read guard of the RwLock
    dbg_pc,           \* per thread: "idle" | "stdin" | "resume" | "blocked" | "panicked"
    dbg_steps,        \* per thread: register_step calls made
    \* functions of images and tensors (photon.rs, threshold.rs, tensorflow.rs)
    image_in,         \* the image, byte vector or tensor a function is applied to
    transform,        \* the parameters of the function
    image_out         \* what the function returned, None before the call

cfg_vars == <<triggers, stream_frames, fps, stop_window>>
child_vars == <<ffmpeg_child, frames_written>>
stderr_vars == <<stderr_pc, current_section, output_size, size_chan, size_tx,
                 unlogged>>
frame_vars == <<read_pos, image, read_failed, timestamp>>
run_vars == <<run_pc, run_result, scope_result, output_dims, buf_size, frame_num, trig,
              calls, seen_frame, last_result, frame_vars>>
worker_vars == <<queue, rx_alive, thread_pc, command, ran, ran_frame, ran_last,
                 inner_log>>
stop_vars == <<stop_pc, stop_result, early_stop, tx_clone>>
ocr_vars == <<slot, mutex, ocr_pc, ocr_result, ocr_calls>>
life_vars == <<quit_sent, runs, trigger_tx>>
job_vars == <<jobs, procs, start_result, stopping, runner_threads,
              stop_job_result, stop_keys, stop_all_result>>
img_vars == <<image_in, transform, image_out>>
dbg_vars == <<debugger_state, lock_readers, dbg_pc, dbg_steps>>
env_vars == <<life_vars, ocr_vars, job_vars, img_vars, dbg_vars>>

vars == <<triggers, stream_frames, fps, ffmpeg_child, frames_written,
          stderr_pc, current_section, output_size, size_chan, size_tx, unlogged,
          run_pc, run_result, scope_result, output_dims, buf_size, frame_num, trig,
          calls, seen_frame, last_result, read_pos, image, read_failed, timestamp,
          queue, rx_alive, thread_pc, command, ran, ran_frame, ran_last, inner_log,
          accepted,
          stop_pc, stop_result, early_stop, tx_clone, stop_window,
          quit_sent, runs, trigger_tx,
          slot, mutex, ocr_pc, ocr_result, ocr_calls,
          jobs, procs, start_result, stopping, runner_threads, stop_job_result,
          stop_keys, stop_all_result,
          debugger_state, lock_readers, dbg_pc, dbg_steps,
          image_in, transform, image_out>>

None == <<>>

\* What a call that panics leaves in place of its result.
Panicked == [panic |-> TRUE]

\* Output sizes a "Stream ... Video: ... WxH" line can carry.
Sizes == {<<2, 1>>, <<1, 1>>}

\* Lengths of a block short of a whole frame, over the sizes in Sizes.
Tails == UNION {1..(size[1] * size[2] * CHANNELS - 1) : size \in Sizes}

\* Kinds of trigger a pipeline can hold: a trigger run on the calling thread
\* (its on_frame may return Ok or Err) and an AsyncTrigger.
TriggerKinds == {"Sync", "Async"}

RECURSIVE SeqsUpTo(_, _)
SeqsUpTo(S, n) ==
    IF n = 0 THEN {<<>>}
    ELSE LET shorter == SeqsUpTo(S, n - 1)
         IN  shorter \cup {Append(s, x) : s \in {t \in shorter : Len(t) = n - 1}, x \in S}

TriggerIds == 1..Len(triggers)

\* Job ids given to Pipeline::start_job.
JobIds == {"a", "b"}

DebugThreads == 1..MaxDebugThreads

\* TENSORFLOW_RUNNER, TESSERACT_RUNNER: the runner names, all registered.
RunnerNames == {"tensorflow", "tesseract"}

\* Threads that call on_frame of TesseractTriggers sharing one handle.
OcrThreads == 1..MaxOcrThreads

\* TriggerCommand
StopCommand == [cmd |-> "Stop"]
Packet(t, n) == [cmd |-> "Packet", trigger |-> t, frame_num |-> n]

\* ------------------------------------------------------------ helpers

\* let buf_size = (output_width * output_height * CHANNELS) as usize
\* (a u32 product; the sizes drawn in Sizes stay far below 2^32)
BufSize(w, h) == w * h * CHANNELS

\* (mutant) frame_num += 2
NextFrameNum_Skip(n) == n + 2

\* frame_num += 1
NextFrameNum(n) == n + 1

\* (mutant) run goes straight to the read loop
PcAfterSpawn_NoRecv == "read"

\* Once the stderr thread is spawned, run blocks in output_size_rx.recv().
PcAfterSpawn == "recv"

\* (mutant) the recv error is swallowed
NoSizeOutcome_Swallowed == "Ok"

\* recv() failed (the sender was dropped with nothing sent): map_err(...)?
NoSizeOutcome == "ErrNoSize"

\* (mutant) stop returns without joining
ThreadFinished_NoJoin == TRUE

\* join_handle.join() returns once the worker thread has ended.
ThreadFinished == thread_pc = "exited"

\* (mutant) trigger.on_frame(&frame)?; -- an Err leaves the loop
LoopContinues_Propagate(result) == result = "Ok"

\* for trigger in &self.triggers { trigger.on_frame(&frame); }
\* The result of on_frame is dropped: the loop goes on whatever it was.
LoopContinues(result) == TRUE

\* (mutant) the newest command is taken first
RecvSlot_Newest(q) == Len(q)

\* rx.recv(): the place in the buffer of the command received, the oldest
RecvSlot(q) == 1

\* The buffer without the command at place i.
Without(q, i) == [k \in 1..(Len(q) - 1) |-> IF k < i THEN q[k] ELSE q[k + 1]]

\* (mutant) an unbounded channel
HasRoom_Unbounded(q) == TRUE

\* A send on the bounded channel goes through when the buffer has room.
HasRoom(q) == Len(q) < QueueCapacity

\* (mutant) the SendError is dropped
SendResult_AlwaysOk(alive) == "Ok"

\* SyncSender::send fails only when the Receiver is gone.
SendResult(alive) == IF alive THEN "Ok" ELSE "Err"

\* (mutant) a plain read: whatever bytes arrived make a frame
ReadExactOk_Any(got, want) == got > 0

\* read_exact(&mut buffer).is_ok(): the whole buffer was filled.
ReadExactOk(got, want) == got = want

\* RgbImage::from_vec(width, height, buf): the image keeps the whole
\* vector; None when the vector is shorter than width * height * 3.
\* offset: where in the decoder's stdout the vector was read from.
FromVec(w, h, len, offset) ==
    IF w * h * CHANNELS <= len
    THEN [width |-> w, height |-> h, len |-> len, offset |-> offset]
    ELSE None

\* read_exact returned an error other than end of file: is_ok() is false,
\* the while loop ends and the closure returns Ok(()).
ReadErrorOutcome == "Ok"

\* (mutant) the read loop only ends once the child has been killed
EndOfStream_OnlyKilled == ffmpeg_child = "killed"

\* read_exact fails with UnexpectedEof once the decoder has closed stdout.
EndOfStream == ffmpeg_child = "exited"

\* Every SyncSender of the channel is gone: the TriggerThread (its tx) was
\* dropped or consumed by stop, the AsyncTriggers (their runner_tx) were
\* dropped with their pipeline, and nobody else holds a clone.
AllSendersDropped ==
    /\ stop_pc \in {"dropped", "done"}
    /\ trigger_tx = "dropped"
    /\ tx_clone \notin {"held", "used"}

\* (mutant) the worker leaves its loop when the pipeline has completed
Disconnected_PipelineDone == queue = <<>> /\ run_pc = "done"

\* rx.recv() returns Err: the buffer is empty and every sender is gone.
Disconnected == queue = <<>> /\ AllSendersDropped

\* (mutant) no lock is taken around the slot
MutexFree_NoLock(m) == TRUE

\* Mutex::lock returns once no other thread holds the guard.
MutexFree(m) == m = 0

\* Threads that have taken the handle out of the slot and not put it back
\* or lost it yet.
Holders == {t \in OcrThreads : ocr_pc[t] \in {"taken", "set"}}

\* Decoder processes that run; "quitting" is a running decoder with a
\* `q\n` on its stdin.
Running == {pid \in 1..Len(procs) : procs[pid] \in {"running", "quitting"}}

\* Decoder processes a job of the table owns.
Owned == {jobs[id] : id \in JobIds} \ {0}

\* ------------------------------------------------ image functions

\* Percentages a Crop is built with.
Percents == {0, 25, 50, 100}

\* Crop::apply: the corners of the rectangle.  `(a as f64 * (p / 100.0))
\* as u32` is taken as the exact quotient, truncated.
Crop_x1(img, c) == (img.width * c.left_percent) \div 100
Crop_y1(img, c) == (img.height * c.top_percent) \div 100
Crop_x2(img, c) == Crop_x1(img, c) + (c.width_percent * img.width) \div 100
Crop_y2(img, c) == Crop_y1(img, c) + (c.height_percent * img.height) \div 100

\* crop(photon_image, x1, y1, x2, y2): a new (x2 - x1) x (y2 - y1) image
\* filled pixel by pixel from img.get_pixel(x1 + x, y1 + y), which panics
\* for a pixel outside the source image.
crop(img, x1, y1, x2, y2) ==
    IF x2 > x1 /\ y2 > y1 /\ (x2 > img.width \/ y2 > img.height)
    THEN Panicked
    ELSE [width |-> x2 - x1, height |-> y2 - y1]

Crop_apply(c, img) ==
    crop(img, Crop_x1(img, c), Crop_y1(img, c),
         Crop_x2(img, c), Crop_y2(img, c))

\* (v as f32 * (num as f32 / den as f32)) as u32.  For sides and minimum
\* sizes below ten the f32 product, truncated, is the exact quotient
\* rounded down.
Scaled(v, num, den) == (v * num) \div den

\* ensure_minimum_size(image, min_size): the size of the image returned.
ensure_minimum_size(img, min_size) ==
    LET narrow == img.width < min_size
        width1 == IF narrow THEN Scaled(img.width, min_size, img.width)
                  ELSE img.width
        height1 == IF narrow THEN Scaled(img.height, min_size, img.width)
                   ELSE img.height
        low == height1 < min_size
        width2 == IF low THEN Scaled(width1, min_size, height1) ELSE width1
        height2 == IF low THEN Scaled(height1, min_size, height1) ELSE height1
    IN  [width |-> width2, height |-> height2]

Black == <<0, 0, 0>>
Dark == <<10, 10, 10>>
White == <<255, 255, 255>>
Red == <<255, 0, 0>>

\* Colours of pixels and of the filter's target.
Colours == {Black, Dark, White, Red}

\* Pixels (r, g, b, a) of the images given to the threshold filter.
Pixels == {<<c[1], c[2], c[3], a>> : c \in Colours, a \in {0, 255}}

\* Thresholds (u8) the filter is built with.
Thresholds == {0, 3, 42, 100, 101}

\* delta_e(color_a, color_b) in hundredths, rounded down, as rgb2lab and
\* delta_e compute it for the colours above.
delta_e ==
    (<<Black, Black>> :> 0) @@ (<<Black, Dark>> :> 274)
    @@ (<<Black, White>> :> 10000) @@ (<<Black, Red>> :> 11734)
    @@ (<<Dark, Black>> :> 274) @@ (<<Dark, Dark>> :> 0)
    @@ (<<Dark, White>> :> 9725) @@ (<<Dark, Red>> :> 11612)
    @@ (<<White, Black>> :> 10000) @@ (<<White, Dark>> :> 9725)
    @@ (<<White, White>> :> 0) @@ (<<White, Red>> :> 11450)
    @@ (<<Red, Black>> :> 5629) @@ (<<Red, Dark>> :> 5371)
    @@ (<<Red, White>> :> 5023) @@ (<<Red, Red>> :> 0)

\* (mutant) pixels close to the colour become white
AtLeast_Inverted(px_color, color, threshold) ==
    delta_e[<<px_color, color>>] < threshold * 100

\* delta_e(&px_color, color) >= threshold
AtLeast(px_color, color, threshold) ==
    delta_e[<<px_color, color>>] >= threshold * 100

\* threshold_color_distance_rgba(vector, color, threshold)
threshold_color_distance_rgba(vector, color, threshold) ==
    [i \in 1..Len(vector) |->
        LET v == IF AtLeast(<<vector[i][1], vector[i][2], vector[i][3]>>,
                            color, threshold)
                 THEN 255 ELSE 0
        IN  <<v, v, v, 255>>]

\* ThresholdFilter::apply
ThresholdFilter_apply(f, img) ==
    [pixels |-> threshold_color_distance_rgba(img.pixels, f.color, f.threshold)]

\* (mutant) the coordinates are taken modulo the width
ImageIterator_next_ByWidth(n, width, height) == <<n \div width, n % width>>

\* ImageIterator::next for item n < width * height
ImageIterator_next(n, width, height) == <<n \div height, n % height>>

\* The coordinates ImageIterator::with_dimension(&(width, height)) yields.
ImageIterator_items(width, height) ==
    {ImageIterator_next(n, width, height) : n \in 0..(width * height - 1)}

\* Pixel values of the images that are copied, and the zeroed pixel of a
\* fresh ImageBuffer.
PixelValues == {<<0, 0, 0, 255>>, <<255, 255, 255, 255>>}
ZeroPixel == <<0, 0, 0, 0>>

Coordinates(width, height) == (0..(width - 1)) \X (0..(height - 1))

\* Images with their pixels, of sides up to n.
PixelImages(n) ==
    UNION {[width : {w}, height : {h},
            pixels : [Coordinates(w, h) -> PixelValues]] :
           w \in 1..n, h \in 1..n}

\* crop(photon_image, x1, y1, x2, y2) with the pixels: for every (x, y) the
\* iterator yields, get_pixel(x1 + x, y1 + y) on the source and put_pixel(x,
\* y) on the new buffer, each of which panics outside its image.
crop_pixels(img, x1, y1, x2, y2) ==
    LET w == x2 - x1
        h == y2 - y1
        items == ImageIterator_items(w, h)
    IN  IF \E it \in items :
              \/ x1 + it[1] >= img.width \/ y1 + it[2] >= img.height
              \/ it[1] >= w \/ it[2] >= h
        THEN Panicked
        ELSE [width |-> w, height |-> h,
              pixels |-> [p \in Coordinates(w, h) |->
                             IF p \in items
                             THEN img.pixels[<<x1 + p[1], y1 + p[2]>>]
                             ELSE ZeroPixel]]

Crop_apply_pixels(c, img) ==
    crop_pixels(img, Crop_x1(img, c), Crop_y1(img, c),
                Crop_x2(img, c), Crop_y2(img, c))

\* Crop { left_percent: 0, top_percent: 0, width_percent: 100,
\* height_percent: 100 }
FullCrop ==
    [left_percent |-> 0, top_percent |-> 0,
     width_percent |-> 100, height_percent |-> 100]

\* The width x height image whose pixel at (x, y) is (x, y, 0, 255).
TaggedImage(width, height) ==
    [width |-> width, height |-> height,
     pixels |-> [p \in Coordinates(width, height) |-> <<p[1], p[2], 0, 255>>]]

is_square(img) == img.width = img.height

\* (mutant) the square is taken from the top left corner
Margin_Zero(extent, side_length) == 0

\* (image.get_width() - side_length) / 2
Margin(extent, side_length) == (extent - side_length) \div 2

center_square_crop(img) ==
    LET side_length == IF img.width < img.height THEN img.width ELSE img.height
        x1 == Margin(img.width, side_length)
        y1 == Margin(img.height, side_length)
    IN  crop_pixels(img, x1, y1, x1 + side_length, y1 + side_length)

ensure_square(img) ==
    IF ~is_square(img) THEN center_square_crop(img) ELSE img

\* photon_rs::transform::resize(&image, width, height, Lanczos3): an image
\* of the size asked for; its resampled pixels are left out.
resize(img, width, height) == [width |-> width, height |-> height]

ensure_size(img, width, height) ==
    IF ~(img.width = width /\ img.height = height)
    THEN resize(img, width, height)
    ELSE img

\* Confidence values of the output tensor, as ordered levels.
Confidences == 0..3

\* (mutant) the fold keeps the smaller value
KeepsMax_Smaller(val_max, val) == val_max < val

\* `&val_max > val`: the fold keeps its accumulator
KeepsMax(val_max, val) == val_max > val

\* output.iter().enumerate().fold((0, output[0]), ...) from element i on
\* (indices are those of the code, from 0).
RECURSIVE ArgmaxFold(_, _, _, _)
ArgmaxFold(output, i, idx_max, val_max) ==
    IF i >= Len(output)
    THEN [class_index |-> idx_max, confidence |-> val_max]
    ELSE IF KeepsMax(val_max, output[i + 1])
         THEN ArgmaxFold(output, i + 1, idx_max, val_max)
         ELSE ArgmaxFold(output, i + 1, i, output[i + 1])

\* The argmax of predict; output[0] panics on an empty tensor.
predict(output) ==
    IF Len(output) = 0 THEN Panicked
    ELSE ArgmaxFold(output, 0, 0, output[1])

\* Byte values of the vectors given to the pixel format conversions.
Bytes == {0, 7, 255}

\* rgb24_to_rgba32(vec): for i in (0..vec.len()).step_by(3) push vec[i],
\* vec[i + 1], vec[i + 2], 255.  An index past the end panics.
rgb24_to_rgba32(vec) ==
    IF Len(vec) % 3 # 0
    THEN Panicked
    ELSE [k \in 1..((Len(vec) \div 3) * 4) |->
            IF k % 4 = 0 THEN 255
            ELSE vec[((k - 1) \div 4) * 3 + ((k - 1) % 4) + 1]]

\* (mutant) the alpha byte is kept and the red byte dropped
Kept_Shifted(vec, i) == <<vec[i + 1], vec[i + 2], vec[i + 3]>>

\* The bytes pushed for the pixel starting at (1-based) position i.
Kept(vec, i) == <<vec[i], vec[i + 1], vec[i + 2]>>

\* rgba32_to_rgb24(vec): for i in (0..vec.len()).step_by(4) push vec[i],
\* vec[i + 1], vec[i + 2].  A last group of one or two bytes panics; a
\* last group of three bytes is copied.
rgba32_to_rgb24(vec) ==
    IF Len(vec) % 4 \in {1, 2}
    THEN Panicked
    ELSE [k \in 1..(((Len(vec) + 3) \div 4) * 3) |->
            Kept(vec, ((k - 1) \div 3) * 4 + 1)[((k - 1) % 3) + 1]]

\* What a line of the decoder's stderr looks like: it starts with
\* `Output #` or not, and REGEX_SIZE matches in it or not.
LineKinds == {"other", "output", "stream", "output_stream"}

\* line.starts_with("Output #")
StartsWithOutput(kind) == kind \in {"output", "output_stream"}

\* parse_ffmpeg_output_size(line): None without a match, the size of a
\* match, and the panic of parse::<u32>().unwrap() when the digits that
\* matched exceed u32.
parse_ffmpeg_output_size(kind, size) ==
    IF kind \in {"stream", "output_stream"} THEN size
    ELSE IF kind = "stream_overflow" THEN Panicked
    ELSE None

\* (mutant) a matching line counts in any section
InOutputSection_Anywhere(section) == TRUE

\* current_section == "Output"
InOutputSection(section) == section = "Output"

\* (mutant) the thread keeps parsing after the first match
StillLooking_Always(size) == TRUE

\* output_size.is_none()
StillLooking(size) == size = None

\* The number of values of a u32, scaled down from 2^32: every u32 of the
\* code is a number below it.
U32Modulus == 16

\* (output_width * output_height * CHANNELS) as usize, a product of three
\* u32.  A build with overflow checks panics when a product leaves u32; a
\* build without them keeps the product modulo 2^32.
buf_size_u32(w, h, overflow_checks) ==
    IF overflow_checks /\ (w * h >= U32Modulus \/ w * h * CHANNELS >= U32Modulus)
    THEN Panicked
    ELSE [buf_size |-> (((w * h) % U32Modulus) * CHANNELS) % U32Modulus]

\* Hypetrigger::new(): fps: 2
DefaultFps == 2

\* Sampling rates given to set_fps.
Rates == 1..3

RECURSIVE Gcd(_, _)
Gcd(a, b) == IF b = 0 THEN a ELSE Gcd(b, a % b)

\* a as f64 / b as f64 for b > 0, as the fraction in lowest terms it
\* stands for (0 for a = 0).
F64Div(a, b) == <<a \div Gcd(a, b), b \div Gcd(a, b)>>

\* (mutant) the timestamp is that of the frame to come
Timestamp_Next(n, rate) == F64Div(n + 1, rate)

\* timestamp: frame_num as f64 / self.fps as f64
Timestamp(n, rate) == F64Div(n, rate)

\* -------------------------------------------------------------- Init

InitIdle ==
    /\ ffmpeg_child = "none"
    /\ frames_written = 0
    /\ stderr_pc = "none"
    /\ current_section = ""
    /\ output_size = None
    /\ size_chan = <<>>
    /\ size_tx = FALSE
    /\ unlogged = 0
    /\ run_pc = "init"
    /\ run_result = "none"
    /\ scope_result = "none"
    /\ output_dims = None
    /\ buf_size = None
    /\ frame_num = FirstFrameNum
    /\ trig = 1
    /\ calls = [t \in TriggerIds |-> 0]
    /\ seen_frame = [t \in TriggerIds |-> -1]
    /\ last_result = [t \in TriggerIds |-> "none"]
    /\ read_pos = 0
    /\ image = None
    /\ read_failed = FALSE
    /\ timestamp = None
    /\ queue = <<>>
    /\ rx_alive = TRUE
    /\ thread_pc = "recv"
    /\ command = None
    /\ ran = [t \in TriggerIds |-> 0]
    /\ ran_frame = [t \in TriggerIds |-> -1]
    /\ ran_last = <<-1, 0>>
    /\ inner_log = <<>>
    /\ accepted = 0
    /\ stop_pc = "idle"
    /\ stop_result = "none"
    /\ early_stop = FALSE
    /\ quit_sent = FALSE
    /\ runs = 1
    /\ trigger_tx = "held"
    /\ slot = "Some"
    /\ mutex = 0
    /\ ocr_pc = [t \in OcrThreads |-> "idle"]
    /\ ocr_result = [t \in OcrThreads |-> "none"]
    /\ ocr_calls = [t \in OcrThreads |-> 0]
    /\ jobs = [id \in JobIds |-> 0]
    /\ procs = <<>>
    /\ start_result = "none"
    /\ stopping = 0
    /\ runner_threads = [name \in RunnerNames |-> 0]
    /\ stop_job_result = "none"
    /\ stop_keys = {}
    /\ stop_all_result = "none"
    /\ debugger_state = "Resumed"
    /\ lock_readers = {}
    /\ dbg_pc = [t \in DebugThreads |-> "idle"]
    /\ dbg_steps = [t \in DebugThreads |-> 0]

\* No image function is under study.
InitCommon ==
    /\ InitIdle
    /\ image_in = None
    /\ transform = None
    /\ image_out = None

\* Hypetrigger::new(), add_trigger ..., TriggerThread::spawn()
Init ==
    /\ triggers \in SeqsUpTo(TriggerKinds, MaxTriggers)
    /\ stream_frames = MaxFrames
    /\ fps = DefaultFps
    /\ stop_window = 0..MaxFrames
    /\ tx_clone = "held"
    /\ InitCommon

\* The backpressure scenario: one async trigger and a stream longer than
\* the channel.  The owner of the TriggerThread calls stop after run has
\* returned, or mid-run within the first frames or once the channel can be
\* full; nobody else holds the tx.
InitLong ==
    /\ triggers = <<"Async">>
    /\ stream_frames = QueueCapacity + ExtraFrames
    /\ fps = DefaultFps
    /\ stop_window = (0..ExtraFrames) \cup ((QueueCapacity - 1)..(QueueCapacity + ExtraFrames))
    /\ tx_clone = "none"
    /\ InitCommon

\* ------------------------------------------------------- the decoder

\* The decoder process ends (end of input, `q` on stdin, or a failure):
\* its stdout and stderr reach end of file.
DecoderExit ==
    /\ ffmpeg_child = "running"
    /\ ffmpeg_child' = "exited"
    /\ UNCHANGED <<frames_written, cfg_vars, env_vars, stderr_vars, run_vars,
                   worker_vars, accepted, stop_vars>>

\* Pipeline::stop_job: ffmpeg_stdin.write_all(b"q\n"), the request to the
\* decoder to finish; the decoder reacts by exiting (DecoderExit).
Stdin_Quit ==
    /\ ffmpeg_child = "running"
    /\ ~quit_sent
    /\ quit_sent' = TRUE
    /\ UNCHANGED <<cfg_vars, runs, trigger_tx, ocr_vars, job_vars, img_vars, dbg_vars, child_vars, stderr_vars, run_vars, worker_vars,
                   accepted, stop_vars>>

\* ------------------------------------------------- the stderr thread

\* reader.read_line returned Ok(n), n > 0.  kind: what the line looks
\* like; size: the numbers a matching line carries.  A line that matches
\* with a number no u32 holds ends the thread in the panic of unwrap(),
\* before the line is printed; the unwinding drops output_size_tx.
Stderr_Line(kind, size) ==
    /\ stderr_pc = "reading"
    /\ ffmpeg_child = "running"
    /\ LET parsed == IF /\ StillLooking(output_size)
                        /\ ~StartsWithOutput(kind)
                        /\ InOutputSection(current_section)
                     THEN parse_ffmpeg_output_size(kind, size)
                     ELSE None
       IN  IF parsed = Panicked
           THEN /\ stderr_pc' = "panicked"
                /\ size_tx' = FALSE
                /\ unlogged' = unlogged + 1
                /\ UNCHANGED <<current_section, output_size, size_chan>>
           ELSE /\ current_section' =
                      IF StillLooking(output_size) /\ StartsWithOutput(kind)
                      THEN "Output" ELSE current_section
                /\ IF parsed # None
                   THEN /\ output_size' = parsed
                        /\ size_chan' = Append(size_chan, parsed)
                   ELSE UNCHANGED <<output_size, size_chan>>
                /\ UNCHANGED <<stderr_pc, size_tx, unlogged>>
    /\ UNCHANGED <<cfg_vars, env_vars, child_vars, run_vars, worker_vars,
                   accepted, stop_vars>>

\* reader.read_line returned Err: logged, the loop reads on.
Stderr_ReadError ==
    /\ stderr_pc = "reading"
    /\ ffmpeg_child = "running"
    /\ UNCHANGED vars

\* reader.read_line returned Ok(0): the thread body ends and drops
\* output_size_tx.
Stderr_EOF ==
    /\ stderr_pc = "reading"
    /\ ffmpeg_child \in {"exited", "killed"}
    /\ stderr_pc' = "exited"
    /\ size_tx' = FALSE
    /\ UNCHANGED <<current_section, output_size, size_chan, unlogged, cfg_vars,
                   env_vars, child_vars, run_vars, worker_vars, accepted,
                   stop_vars>>

\* ------------------------------------------------- Hypetrigger::run

\* spawn_ffmpeg_child, the three stdio handles, thread::scope and
\* spawn_ffmpeg_stderr_thread.
Run_Spawn(outcome) ==
    /\ run_pc = "init"
    /\ CASE outcome = "spawn_failed" ->
              /\ run_result' = "ErrSpawn"
              /\ run_pc' = "done"
              /\ UNCHANGED <<ffmpeg_child, stderr_pc, size_tx, scope_result>>
         [] outcome = "thread_failed" ->
              /\ ffmpeg_child' = "killed"
              /\ scope_result' = "ErrThread"
              /\ run_pc' = "join"
              /\ UNCHANGED <<stderr_pc, size_tx, run_result>>
         [] outcome = "ok" ->
              /\ ffmpeg_child' = "running"
              /\ stderr_pc' = "reading"
              /\ size_tx' = TRUE
              /\ run_pc' = PcAfterSpawn
              /\ UNCHANGED <<run_result, scope_result>>
    /\ UNCHANGED <<cfg_vars, env_vars, frame_vars, frames_written, current_section, output_size,
                   unlogged, size_chan, output_dims, buf_size, frame_num, trig, calls,
                   seen_frame, last_result, worker_vars, accepted, stop_vars>>

\* output_size_rx.recv(): blocks until the size arrives or the sender is
\* dropped; then the buffer is allocated and frame_num starts at 0.
Run_RecvSize ==
    /\ run_pc = "recv"
    /\ \/ /\ size_chan # <<>>
          /\ output_dims' = Head(size_chan)
          /\ size_chan' = Tail(size_chan)
          /\ buf_size' = BufSize(Head(size_chan)[1], Head(size_chan)[2])
          /\ frame_num' = FirstFrameNum
          /\ run_pc' = "read"
          /\ UNCHANGED scope_result
       \/ /\ size_chan = <<>>
          /\ ~size_tx
          /\ scope_result' = NoSizeOutcome
          /\ run_pc' = "join"
          /\ UNCHANGED <<output_dims, buf_size, size_chan, frame_num>>
    /\ UNCHANGED <<cfg_vars, env_vars, frame_vars, child_vars, stderr_pc, current_section,
                   output_size, size_tx, unlogged, run_result, trig, calls, seen_frame,
                   last_result, worker_vars, accepted, stop_vars>>

\* The loop condition and the head of the loop body, read_exact having
\* put `got` bytes into the buffer: a full buffer becomes the image of the
\* next frame, anything less ends the loop.
AfterRead(got) ==
    /\ read_pos' = read_pos + got
    /\ IF ReadExactOk(got, buf_size)
       THEN LET img == FromVec(output_dims[1], output_dims[2], buf_size, read_pos)
            IN  IF img = None
                THEN /\ scope_result' = "ErrMismatch"
                     /\ run_pc' = "join"
                     /\ UNCHANGED <<frames_written, frame_num, trig, image, timestamp>>
                ELSE /\ image' = img
                     /\ timestamp' = Timestamp(frame_num, fps)
                     /\ frames_written' = frames_written + 1
                     /\ IF Len(triggers) = 0
                        THEN /\ frame_num' = NextFrameNum(frame_num)
                             /\ UNCHANGED <<run_pc, trig>>
                        ELSE /\ run_pc' = "dispatch"
                             /\ trig' = 1
                             /\ UNCHANGED frame_num
                     /\ UNCHANGED scope_result
       ELSE /\ scope_result' = "Ok"
            /\ run_pc' = "join"
            /\ UNCHANGED <<frames_written, frame_num, trig, image, timestamp>>

\* while ffmpeg_stdout.read_exact(&mut buffer).is_ok(): the decoder has
\* written another whole frame, or it has closed stdout after the last
\* whole frame.
Run_Read ==
    /\ run_pc = "read"
    /\ \/ /\ ffmpeg_child = "running"
          /\ frames_written < stream_frames
          /\ AfterRead(buf_size)
       \/ /\ EndOfStream
          /\ AfterRead(0)
    /\ UNCHANGED <<cfg_vars, env_vars, ffmpeg_child, stderr_vars, run_result,
                   output_dims, buf_size, calls, seen_frame, last_result,
                   read_failed, worker_vars, accepted, stop_vars>>

\* read_exact when the decoder closed stdout in the middle of a frame:
\* `tail` bytes arrive, fewer than the buffer holds, then end of file.
Run_ReadShort(tail) ==
    /\ run_pc = "read"
    /\ EndOfStream
    /\ read_pos = frames_written * buf_size
    /\ tail \in 1..(buf_size - 1)
    /\ AfterRead(tail)
    /\ UNCHANGED <<cfg_vars, env_vars, ffmpeg_child, stderr_vars, run_result,
                   output_dims, buf_size, calls, seen_frame, last_result,
                   read_failed, worker_vars, accepted, stop_vars>>

\* read_exact returned an error that is not end of file (the pipe is
\* still open).
Run_ReadError ==
    /\ run_pc = "read"
    /\ ffmpeg_child = "running"
    /\ read_failed' = TRUE
    /\ scope_result' = ReadErrorOutcome
    /\ run_pc' = "join"
    /\ UNCHANGED <<cfg_vars, env_vars, child_vars, stderr_vars, run_result,
                   output_dims, buf_size, frame_num, trig, calls, seen_frame,
                   last_result, read_pos, image, timestamp, worker_vars, accepted,
                   stop_vars>>

\* What the for loop does once triggers[trig].on_frame(&frame) has returned
\* `result`.
AfterTrigger(result) ==
    /\ calls' = [calls EXCEPT ![trig] = @ + 1]
    /\ seen_frame' = [seen_frame EXCEPT ![trig] = frame_num]
    /\ last_result' = [last_result EXCEPT ![trig] = result]
    /\ IF LoopContinues(result)
       THEN /\ IF trig < Len(triggers)
               THEN /\ trig' = trig + 1
                    /\ UNCHANGED <<frame_num, run_pc>>
               ELSE /\ trig' = 1
                    /\ frame_num' = NextFrameNum(frame_num)
                    /\ run_pc' = "read"
            /\ UNCHANGED scope_result
       ELSE /\ scope_result' = "ErrTrigger"
            /\ run_pc' = "join"
            /\ UNCHANGED <<trig, frame_num>>

\* trigger.on_frame(&frame) for a trigger that runs on the calling thread:
\* it returns Ok or an error.
Run_SyncTrigger(result) ==
    /\ run_pc = "dispatch"
    /\ triggers[trig] = "Sync"
    /\ AfterTrigger(result)
    /\ UNCHANGED <<cfg_vars, env_vars, frame_vars, child_vars, stderr_vars, run_result, output_dims,
                   buf_size, worker_vars, accepted, stop_vars>>

\* AsyncTrigger::on_frame: runner_tx.send(Packet{frame.clone(), trigger}).
\* The send waits while the buffer is full and the worker holds the Receiver.
Run_AsyncTrigger ==
    /\ run_pc = "dispatch"
    /\ triggers[trig] = "Async"
    /\ ~rx_alive \/ HasRoom(queue)
    /\ IF SendResult(rx_alive) = "Ok"
       THEN /\ queue' = Append(queue, Packet(trig, frame_num))
            /\ accepted' = accepted + 1
       ELSE UNCHANGED <<queue, accepted>>
    /\ AfterTrigger(SendResult(rx_alive))
    /\ UNCHANGED <<cfg_vars, env_vars, frame_vars, child_vars, stderr_vars, run_result, output_dims,
                   buf_size, rx_alive, thread_pc, command, ran, ran_frame, ran_last,
                   inner_log, stop_vars>>

\* The end of thread::scope: waits for the stderr thread; an Err of the
\* closure leaves run through `?`.
Run_ScopeEnd ==
    /\ run_pc = "join"
    /\ stderr_pc # "reading"
    /\ IF stderr_pc = "panicked"
       THEN /\ run_pc' = "done"
            /\ run_result' = "Panic"
       ELSE IF scope_result = "Ok"
       THEN /\ run_pc' = "wait"
            /\ UNCHANGED run_result
       ELSE /\ run_pc' = "done"
            /\ run_result' = scope_result
    /\ UNCHANGED <<cfg_vars, env_vars, frame_vars, child_vars, stderr_vars, scope_result,
                   output_dims, buf_size, frame_num, trig, calls, seen_frame,
                   last_result, worker_vars, accepted, stop_vars>>

\* ffmpeg_child.wait(): blocks until the decoder has exited.
Run_Wait(ok) ==
    /\ run_pc = "wait"
    /\ ffmpeg_child = "exited"
    /\ run_pc' = "done"
    /\ run_result' = IF ok THEN "Ok" ELSE "ErrWait"
    /\ ffmpeg_child' = IF ok THEN "reaped" ELSE "exited"
    /\ UNCHANGED <<cfg_vars, env_vars, frame_vars, frames_written, stderr_vars, scope_result,
                   output_dims, buf_size, frame_num, trig, calls, seen_frame,
                   last_result, worker_vars, accepted, stop_vars>>

\* ------------------------------------------------- the TriggerThread

\* while let Ok(command) = rx.recv()
Worker_Recv ==
    /\ thread_pc = "recv"
    /\ queue # <<>>
    /\ command' = queue[RecvSlot(queue)]
    /\ queue' = Without(queue, RecvSlot(queue))
    /\ thread_pc' = "run"
    /\ UNCHANGED <<cfg_vars, env_vars, child_vars, stderr_vars, run_vars, rx_alive,
                   ran, ran_frame, ran_last, inner_log, accepted, stop_vars>>

\* if let Err(e) = result { eprintln!(...) } holds no break and no return.
WorkerGoesOn_UntilError(result) == result = "Ok"

WorkerGoesOn(result) == TRUE

\* match command: Stop breaks the loop (the thread ends and drops rx with
\* whatever is still buffered); a Packet runs the inner trigger, whose
\* result is the input: an error is printed.
Worker_Run(result) ==
    /\ thread_pc = "run"
    /\ IF command.cmd = "Stop"
       THEN /\ thread_pc' = "exited"
            /\ rx_alive' = FALSE
            /\ queue' = <<>>
            /\ UNCHANGED <<ran, ran_frame, ran_last, inner_log>>
       ELSE /\ ran' = [ran EXCEPT ![command.trigger] = @ + 1]
            /\ ran_frame' = [ran_frame EXCEPT ![command.trigger] = command.frame_num]
            /\ ran_last' = <<command.frame_num, command.trigger>>
            /\ inner_log' = IF result = "Err"
                            THEN Append(inner_log, command.frame_num)
                            ELSE inner_log
            /\ IF WorkerGoesOn(result)
               THEN /\ thread_pc' = "recv"
                    /\ UNCHANGED <<rx_alive, queue>>
               ELSE /\ thread_pc' = "exited"
                    /\ rx_alive' = FALSE
                    /\ queue' = <<>>
    /\ command' = None
    /\ UNCHANGED <<cfg_vars, env_vars, child_vars, stderr_vars, run_vars, accepted,
                   stop_vars>>

\* while let Ok(command) = rx.recv(): recv fails, the loop and the thread
\* end.
Worker_Disconnected ==
    /\ thread_pc = "recv"
    /\ Disconnected
    /\ thread_pc' = "exited"
    /\ rx_alive' = FALSE
    /\ UNCHANGED <<cfg_vars, env_vars, child_vars, stderr_vars, run_vars,
                   queue, command, ran, ran_frame, ran_last, inner_log, accepted, stop_vars>>

\* ------------------------------------------------ TriggerThread::stop

\* self.tx.send(TriggerCommand::Stop)?
Stop_Send ==
    /\ stop_pc = "idle"
    /\ run_pc = "done" \/ frame_num \in stop_window
    /\ ~rx_alive \/ HasRoom(queue)
    /\ IF SendResult(rx_alive) = "Ok"
       THEN /\ queue' = Append(queue, StopCommand)
            /\ stop_pc' = "join"
            /\ UNCHANGED stop_result
       ELSE /\ stop_pc' = "done"
            /\ stop_result' = "Err"
            /\ UNCHANGED queue
    /\ early_stop' = (early_stop \/ run_pc # "done")
    /\ UNCHANGED <<cfg_vars, env_vars, child_vars, stderr_vars, run_vars, rx_alive,
                   thread_pc, command, ran, ran_frame, ran_last, inner_log, accepted,
                   tx_clone>>

\* self.join_handle.join()...?; Ok(())
Stop_Join ==
    /\ stop_pc = "join"
    /\ ThreadFinished
    /\ stop_pc' = "done"
    /\ stop_result' = "Ok"
    /\ UNCHANGED <<cfg_vars, env_vars, child_vars, stderr_vars, run_vars, worker_vars,
                   accepted, early_stop, tx_clone>>

\* Another holder of the channel (TriggerThread.tx is a public, clonable
\* SyncSender and TriggerCommand a public enum) sends Stop itself.
Tx_SendStop ==
    /\ tx_clone = "held"
    /\ ~rx_alive \/ HasRoom(queue)
    /\ tx_clone' = "used"
    /\ IF SendResult(rx_alive) = "Ok"
       THEN queue' = Append(queue, StopCommand)
       ELSE UNCHANGED queue
    /\ early_stop' = (early_stop \/ run_pc # "done")
    /\ UNCHANGED <<cfg_vars, env_vars, child_vars, stderr_vars, run_vars, rx_alive,
                   thread_pc, command, ran, ran_frame, ran_last, inner_log, accepted,
                   stop_pc, stop_result>>

\* ----------------------------------------- TesseractTrigger::ocr

\* The trigger locks the mutex around the shared Option<Tesseract> for the
\* length of one ocr call.
Ocr_Lock(t) ==
    /\ ocr_pc[t] = "idle"
    /\ ocr_calls[t] < MaxOcrCalls
    /\ MutexFree(mutex)
    /\ mutex' = t
    /\ ocr_pc' = [ocr_pc EXCEPT ![t] = "locked"]
    /\ ocr_calls' = [ocr_calls EXCEPT ![t] = @ + 1]
    /\ UNCHANGED <<cfg_vars, life_vars, job_vars, img_vars, dbg_vars, slot, ocr_result,
                   child_vars, stderr_vars, run_vars, worker_vars, accepted,
                   stop_vars>>

\* match self.tesseract.replace(None): the handle is taken out of the
\* slot; an empty slot is the error "tesseract instance is missing".
Ocr_Take(t) ==
    /\ ocr_pc[t] = "locked"
    /\ slot' = "None"
    /\ IF slot = "Some"
       THEN /\ ocr_pc' = [ocr_pc EXCEPT ![t] = "taken"]
            /\ UNCHANGED ocr_result
       ELSE /\ ocr_pc' = [ocr_pc EXCEPT ![t] = "return"]
            /\ ocr_result' = [ocr_result EXCEPT ![t] = "ErrMissing"]
    /\ UNCHANGED <<cfg_vars, life_vars, job_vars, img_vars, dbg_vars, mutex, ocr_calls,
                   child_vars, stderr_vars, run_vars, worker_vars, accepted,
                   stop_vars>>

\* tesseract.set_frame(...).map_err(...)?: on Err the function returns at
\* once; the handle, consumed by set_frame, is not put back.
Ocr_SetFrame(t, ok) ==
    /\ ocr_pc[t] = "taken"
    /\ IF ok
       THEN /\ ocr_pc' = [ocr_pc EXCEPT ![t] = "set"]
            /\ UNCHANGED ocr_result
       ELSE /\ ocr_pc' = [ocr_pc EXCEPT ![t] = "return"]
            /\ ocr_result' = [ocr_result EXCEPT ![t] = "ErrSetFrame"]
    /\ UNCHANGED <<cfg_vars, life_vars, job_vars, img_vars, dbg_vars, slot, mutex,
                   ocr_calls, child_vars, stderr_vars, run_vars, worker_vars,
                   accepted, stop_vars>>

\* let result = tesseract.get_text().map_err(...);
\* self.tesseract.replace(Some(tesseract)); result
Ocr_GetText(t, ok) ==
    /\ ocr_pc[t] = "set"
    /\ slot' = "Some"
    /\ ocr_pc' = [ocr_pc EXCEPT ![t] = "return"]
    /\ ocr_result' = [ocr_result EXCEPT ![t] = IF ok THEN "Ok" ELSE "ErrGetText"]
    /\ UNCHANGED <<cfg_vars, life_vars, job_vars, img_vars, dbg_vars, mutex, ocr_calls,
                   child_vars, stderr_vars, run_vars, worker_vars, accepted,
                   stop_vars>>

\* The call returns and the lock is released.
Ocr_Unlock(t) ==
    /\ ocr_pc[t] = "return"
    /\ mutex' = IF mutex = t THEN 0 ELSE mutex
    /\ ocr_pc' = [ocr_pc EXCEPT ![t] = "idle"]
    /\ UNCHANGED <<cfg_vars, life_vars, job_vars, img_vars, dbg_vars, slot, ocr_result,
                   ocr_calls, child_vars, stderr_vars, run_vars, worker_vars,
                   accepted, stop_vars>>

\* ------------------------------------------------- Pipeline (jobs)

\* (mutant) start_job without the contains_key check
Validate_NoDuplicateCheck(exists, has_triggers) ==
    IF ~has_triggers THEN "ErrNoTriggers" ELSE "Ok"

\* start_job, "Validate job": the id must be new and the config must hold
\* a trigger.
Validate(exists, has_triggers) ==
    IF exists THEN "ErrAlreadyExists"
    ELSE IF ~has_triggers THEN "ErrNoTriggers"
    ELSE "Ok"

\* (mutant) spawn_runner without the look-up
HasThread_Never(threads, name) == FALSE

\* if let Some(_) = self.runner_threads.read()...get(&name)
HasThread(threads, name) == threads[name] > 0

\* Pipeline::spawn_runner(name, config): returns at once when the name
\* has a thread, spawns one and inserts it otherwise.
spawn_runner(threads, name) ==
    IF HasThread(threads, name)
    THEN threads
    ELSE [threads EXCEPT ![name] = @ + 1]

\* Pipeline::spawn_runners_for_config(config): spawn_runner for the
\* runner type of every trigger of the config.
spawn_runners_for_config(threads, runners) ==
    [name \in RunnerNames |->
        IF name \in runners THEN spawn_runner(threads, name)[name]
        ELSE threads[name]]

\* No call on the Pipeline (they take &mut self) is under way, and none
\* has panicked.
PipelineIdle ==
    /\ stopping = 0
    /\ stop_all_result \notin {"running", "Panic"}
    /\ stop_job_result # "Panic"

\* Pipeline::start_job(job_id, config).  runners: the runner types of the
\* config's triggers; outcome: how far the start gets once the job is
\* validated.
Job_Start(id, runners, outcome) ==
    /\ PipelineIdle
    /\ Len(procs) < MaxProcs
    /\ IF Validate(jobs[id] # 0, runners # {}) # "Ok"
       THEN /\ start_result' = Validate(jobs[id] # 0, runners # {})
            /\ UNCHANGED <<jobs, procs, runner_threads>>
       ELSE CASE outcome = "spawn_failed" ->
                   \* (self.spawn_ffmpeg_childprocess)(...)?
                   /\ start_result' = "ErrSpawn"
                   /\ UNCHANGED <<jobs, procs, runner_threads>>
              [] outcome = "no_stdout" ->
                   \* ffmpeg_child.stdout.take() is None: return Err(BrokenPipe);
                   \* the Child is dropped, the process is neither killed
                   \* nor waited for
                   /\ start_result' = "ErrNoStdout"
                   /\ procs' = Append(procs, "running")
                   /\ UNCHANGED <<jobs, runner_threads>>
              [] outcome = "stdout_thread_failed" ->
                   \* child.kill(); child.wait(); return Err(err)
                   /\ start_result' = "ErrStdoutThread"
                   /\ procs' = Append(procs, "reaped")
                   /\ UNCHANGED <<jobs, runner_threads>>
              [] outcome = "stderr_thread_failed" ->
                   \* child.kill(); child.wait(); ffmpeg_stdout_thread.join();
                   \* return Err(err)
                   /\ start_result' = "ErrStderrThread"
                   /\ procs' = Append(procs, "reaped")
                   /\ UNCHANGED <<jobs, runner_threads>>
              [] outcome = "ok" ->
                   \* self.spawn_runners_for_config(config_arc.clone());
                   \* self.jobs.insert(job_id, job); Ok(())
                   /\ start_result' = "Ok"
                   /\ procs' = Append(procs, "running")
                   /\ runner_threads' = spawn_runners_for_config(runner_threads, runners)
                   /\ jobs' = [jobs EXCEPT ![id] = Len(procs) + 1]
    /\ UNCHANGED <<cfg_vars, life_vars, ocr_vars, img_vars, dbg_vars, stopping, stop_job_result,
                   stop_keys, stop_all_result, child_vars,
                   stderr_vars, run_vars, worker_vars, accepted, stop_vars>>

\* Pipeline::spawn_runner called by the owner of the Pipeline.
Pipeline_SpawnRunner(name) ==
    /\ PipelineIdle
    /\ runner_threads' = spawn_runner(runner_threads, name)
    /\ UNCHANGED <<cfg_vars, life_vars, ocr_vars, img_vars, dbg_vars, jobs, procs, start_result,
                   stopping, stop_job_result, stop_keys, stop_all_result, child_vars,
                   stderr_vars, run_vars, worker_vars, accepted, stop_vars>>

\* A decoder process ends: end of input, or `q` on its stdin.
Job_DecoderExit(pid) ==
    /\ pid \in Running
    /\ procs' = [procs EXCEPT ![pid] = "exited"]
    /\ UNCHANGED <<cfg_vars, life_vars, ocr_vars, img_vars, dbg_vars, jobs, start_result,
                   stopping, runner_threads, stop_job_result, stop_keys,
                   stop_all_result, child_vars, stderr_vars, run_vars,
                   worker_vars, accepted, stop_vars>>

\* write_all(b"q\n") on the job's ChildStdin succeeds while the decoder
\* holds the other end of the pipe.
WriteQuitOk(pid) == pid \in Running

\* The body of Pipeline::stop_job(job_id): the job leaves the table, `q\n`
\* is written to its decoder's stdin (.expect("send quit signal") panics
\* when the write fails), and the call starts joining the job's threads.
stop_job(id) ==
    /\ jobs' = [jobs EXCEPT ![id] = 0]
    /\ IF WriteQuitOk(jobs[id])
       THEN /\ procs' = [procs EXCEPT ![jobs[id]] = "quitting"]
            /\ stopping' = jobs[id]
            /\ stop_job_result' = "none"
       ELSE /\ stop_job_result' = "Panic"
            /\ UNCHANGED <<procs, stopping>>

\* Pipeline::stop_job(job_id) called by the owner of the Pipeline.
Job_Stop(id) ==
    /\ PipelineIdle
    /\ jobs[id] # 0
    /\ stop_job(id)
    /\ UNCHANGED <<cfg_vars, life_vars, ocr_vars, img_vars, dbg_vars, start_result,
                   runner_threads, stop_keys, stop_all_result,
                   child_vars, stderr_vars, run_vars, worker_vars,
                   accepted, stop_vars>>

\* stop_job: the joins return once the decoder has closed its pipes.
Job_StopJoined ==
    /\ stopping # 0
    /\ stopping \notin Running
    /\ stopping' = 0
    /\ stop_job_result' = "Ok"
    /\ UNCHANGED <<cfg_vars, life_vars, ocr_vars, img_vars, dbg_vars, jobs, procs,
                   start_result, runner_threads, stop_keys, stop_all_result,
                   child_vars, stderr_vars, run_vars,
                   worker_vars, accepted, stop_vars>>

\* Pipeline::stop_all_jobs: let keys = self.jobs.keys().cloned().collect()
StopAll_Begin ==
    /\ PipelineIdle
    /\ stop_keys' = {id \in JobIds : jobs[id] # 0}
    /\ stop_all_result' = "running"
    /\ UNCHANGED <<cfg_vars, life_vars, ocr_vars, img_vars, dbg_vars, jobs, procs,
                   start_result, stopping, runner_threads, stop_job_result,
                   child_vars, stderr_vars, run_vars,
                   worker_vars, accepted, stop_vars>>

\* for key in keys { self.stop_job(key); } -- the order is the HashMap's.
StopAll_Next(id) ==
    /\ stop_all_result = "running"
    /\ stopping = 0
    /\ id \in stop_keys
    /\ stop_job(id)
    /\ stop_keys' = stop_keys \ {id}
    /\ stop_all_result' = IF WriteQuitOk(jobs[id]) THEN "running" ELSE "Panic"
    /\ UNCHANGED <<cfg_vars, life_vars, ocr_vars, img_vars, dbg_vars, start_result,
                   runner_threads, child_vars, stderr_vars, run_vars,
                   worker_vars, accepted, stop_vars>>

\* Ok(())
StopAll_End ==
    /\ stop_all_result = "running"
    /\ stopping = 0
    /\ stop_keys = {}
    /\ stop_all_result' = "Ok"
    /\ UNCHANGED <<cfg_vars, life_vars, ocr_vars, img_vars, dbg_vars, jobs, procs,
                   start_result, stopping, runner_threads, stop_job_result,
                   stop_keys, child_vars, stderr_vars, run_vars,
                   worker_vars, accepted, stop_vars>>

\* ------------------------------------------------------ the Debugger

\* Debugger::pause(&this): this.write().unwrap().state = Paused.  The
\* write lock is granted when no guard is held.
Debugger_Pause ==
    /\ lock_readers = {}
    /\ debugger_state' = "Paused"
    /\ UNCHANGED <<cfg_vars, life_vars, ocr_vars, job_vars, img_vars, lock_readers,
                   dbg_pc, dbg_steps, child_vars, stderr_vars, run_vars, worker_vars, accepted,
                   stop_vars>>

\* Debugger::register_step(this, step): let debugger = this.read().unwrap();
\* when the state is Resumed it returns (and drops the guard); otherwise it
\* prints the step and calls step_stdin, the guard `debugger` still alive.
Register_Step(t) ==
    /\ dbg_pc[t] = "idle"
    /\ dbg_steps[t] < MaxSteps
    /\ dbg_steps' = [dbg_steps EXCEPT ![t] = @ + 1]
    /\ IF debugger_state = "Resumed"
       THEN UNCHANGED <<lock_readers, dbg_pc>>
       ELSE /\ lock_readers' = lock_readers \cup {t}
            /\ dbg_pc' = [dbg_pc EXCEPT ![t] = "stdin"]
    /\ UNCHANGED <<cfg_vars, life_vars, ocr_vars, job_vars, img_vars, debugger_state,
                   child_vars, stderr_vars, run_vars, worker_vars, accepted,
                   stop_vars>>

\* Debugger::step_stdin(this): one line is read from stdin.  `step` calls
\* clear_step, which does nothing, and register_step returns; `resume`
\* calls Debugger::resume; anything else asks again.
Step_Stdin(t, line) ==
    /\ dbg_pc[t] = "stdin"
    /\ CASE line = "step" ->
             /\ dbg_pc' = [dbg_pc EXCEPT ![t] = "idle"]
             /\ lock_readers' = lock_readers \ {t}
        [] line = "resume" ->
             /\ dbg_pc' = [dbg_pc EXCEPT ![t] = "resume"]
             /\ UNCHANGED lock_readers
        [] OTHER -> UNCHANGED <<lock_readers, dbg_pc>>
    /\ UNCHANGED <<cfg_vars, life_vars, ocr_vars, job_vars, img_vars, debugger_state, dbg_steps,
                   child_vars, stderr_vars, run_vars, worker_vars, accepted,
                   stop_vars>>

\* Debugger::resume(this): let mut debugger = this.write().unwrap().
\* RwLock::write waits until no guard is held; called by a thread that
\* holds a read guard itself it never returns or it panics (the two
\* outcomes the standard library allows), and the panic unwinds
\* register_step and drops the read guard.
Debugger_Resume(t, outcome) ==
    /\ dbg_pc[t] = "resume"
    /\ IF t \in lock_readers
       THEN /\ dbg_pc' = [dbg_pc EXCEPT ![t] =
                            IF outcome = "deadlock" THEN "blocked" ELSE "panicked"]
            /\ lock_readers' = IF outcome = "deadlock" THEN lock_readers
                               ELSE lock_readers \ {t}
            /\ UNCHANGED debugger_state
       ELSE /\ lock_readers = {}
            /\ debugger_state' = "Resumed"
            /\ dbg_pc' = [dbg_pc EXCEPT ![t] = "idle"]
            /\ UNCHANGED lock_readers
    /\ UNCHANGED <<cfg_vars, life_vars, ocr_vars, job_vars, img_vars, dbg_steps,
                   child_vars, stderr_vars, run_vars, worker_vars, accepted,
                   stop_vars>>

\* -------------------------------------- what owners do between runs

\* The pipeline that has run is dropped, and with it its AsyncTriggers and
\* their runner_tx.
Pipeline_Drop ==
    /\ run_pc = "done"
    /\ trigger_tx = "held"
    /\ trigger_tx' = "dropped"
    /\ UNCHANGED <<cfg_vars, quit_sent, runs, ocr_vars, job_vars, img_vars, dbg_vars, child_vars, stderr_vars,
                   run_vars, worker_vars, accepted, stop_vars>>

\* The TriggerThread is dropped without stop having been called: its tx is
\* dropped and the thread is left detached.
Owner_Drop ==
    /\ stop_pc = "idle"
    /\ stop_pc' = "dropped"
    /\ UNCHANGED <<cfg_vars, env_vars, child_vars, stderr_vars, run_vars,
                   worker_vars, accepted, stop_result, early_stop, tx_clone>>

\* A later pipeline is built with AsyncTriggers on the same TriggerThread
\* (runner_tx: trigger_thread.tx.clone()) and run.
Run_Restart ==
    /\ run_pc = "done"
    /\ runs < MaxRuns
    /\ stop_pc \in {"idle", "join"}
    /\ runs' = runs + 1
    /\ trigger_tx' = "held"
    /\ quit_sent' = FALSE
    /\ ffmpeg_child' = "none"
    /\ frames_written' = 0
    /\ stderr_pc' = "none"
    /\ current_section' = ""
    /\ output_size' = None
    /\ size_chan' = <<>>
    /\ size_tx' = FALSE
    /\ unlogged' = 0
    /\ run_pc' = "init"
    /\ run_result' = "none"
    /\ scope_result' = "none"
    /\ output_dims' = None
    /\ buf_size' = None
    /\ frame_num' = FirstFrameNum
    /\ trig' = 1
    /\ calls' = [t \in TriggerIds |-> 0]
    /\ seen_frame' = [t \in TriggerIds |-> -1]
    /\ last_result' = [t \in TriggerIds |-> "none"]
    /\ read_pos' = 0
    /\ image' = None
    /\ read_failed' = FALSE
    /\ timestamp' = None
    /\ UNCHANGED <<cfg_vars, ocr_vars, job_vars, img_vars, dbg_vars, worker_vars, accepted,
                   stop_vars>>

\* ------------------------------------------------- specifications

Next ==
    \/ DecoderExit
    \/ \E kind \in LineKinds, size \in Sizes : Stderr_Line(kind, size)
    \/ Stderr_ReadError
    \/ Stderr_EOF
    \/ \E outcome \in {"spawn_failed", "thread_failed", "ok"} : Run_Spawn(outcome)
    \/ Run_RecvSize
    \/ Run_Read
    \/ \E tail \in Tails : Run_ReadShort(tail)
    \/ Run_ReadError
    \/ \E result \in {"Ok", "Err"} : Run_SyncTrigger(result)
    \/ Run_AsyncTrigger
    \/ Run_ScopeEnd
    \/ \E ok \in BOOLEAN : Run_Wait(ok)
    \/ Worker_Recv
    \/ Worker_Run("Ok")
    \/ Stop_Send
    \/ Stop_Join
    \/ Tx_SendStop

Spec == Init /\ [][Next]_vars

\* The backpressure scenario: its pipeline holds no trigger that runs on
\* the calling thread and nobody but the owner holds the tx.
NextLong ==
    \/ DecoderExit
    \/ \E kind \in LineKinds, size \in Sizes : Stderr_Line(kind, size)
    \/ Stderr_ReadError
    \/ Stderr_EOF
    \/ \E outcome \in {"spawn_failed", "thread_failed", "ok"} : Run_Spawn(outcome)
    \/ Run_RecvSize
    \/ Run_Read
    \/ Run_AsyncTrigger
    \/ Run_ScopeEnd
    \/ \E ok \in BOOLEAN : Run_Wait(ok)
    \/ Worker_Recv
    \/ Worker_Run("Ok")
    \/ Stop_Send
    \/ Stop_Join

SpecLong == InitLong /\ [][NextLong]_vars

\* The blocked-send scenario: one async trigger and a stream one frame
\* longer than the channel; the owner may call stop before the first
\* frame is dispatched, or after run.
\* The thread calling run and the worker, when they can take a step,
\* eventually take it.
InitBlocked ==
    /\ triggers = <<"Async">>
    /\ stream_frames = QueueCapacity + 1
    /\ fps = DefaultFps
    /\ stop_window = {0}
    /\ tx_clone = "none"
    /\ InitCommon

SpecBlocked ==
    /\ InitBlocked
    /\ [][NextLong]_vars
    /\ WF_vars(Run_AsyncTrigger)
    /\ WF_vars(Worker_Recv)
    /\ WF_vars(Worker_Run("Ok"))

\* The inner-error scenario: one async trigger whose inner on_frame may
\* fail on the worker; the owner stops the worker once run has returned.
InitWorker ==
    /\ triggers = <<"Async">>
    /\ stream_frames = MaxFrames
    /\ fps = DefaultFps
    /\ stop_window = {}
    /\ tx_clone = "none"
    /\ InitCommon

NextWorker ==
    \/ DecoderExit
    \/ \E kind \in LineKinds, size \in Sizes : Stderr_Line(kind, size)
    \/ Stderr_ReadError
    \/ Stderr_EOF
    \/ \E outcome \in {"spawn_failed", "thread_failed", "ok"} : Run_Spawn(outcome)
    \/ Run_RecvSize
    \/ Run_Read
    \/ Run_AsyncTrigger
    \/ Run_ScopeEnd
    \/ \E ok \in BOOLEAN : Run_Wait(ok)
    \/ Worker_Recv
    \/ \E result \in {"Ok", "Err"} : Worker_Run(result)
    \/ Stop_Send
    \/ Stop_Join

SpecWorker == InitWorker /\ [][NextWorker]_vars

\* The timestamp scenario: set_fps with any of the rates, one trigger on
\* the calling thread, a stream of one frame more than MaxFrames.
InitTime ==
    /\ triggers = <<"Sync">>
    /\ stream_frames = MaxFrames + 1
    /\ fps \in Rates
    /\ stop_window = {}
    /\ tx_clone = "none"
    /\ InitCommon

NextTime ==
    \/ DecoderExit
    \/ \E kind \in LineKinds, size \in Sizes : Stderr_Line(kind, size)
    \/ Stderr_ReadError
    \/ Stderr_EOF
    \/ \E outcome \in {"spawn_failed", "thread_failed", "ok"} : Run_Spawn(outcome)
    \/ Run_RecvSize
    \/ Run_Read
    \/ \E result \in {"Ok", "Err"} : Run_SyncTrigger(result)
    \/ Run_ScopeEnd
    \/ \E ok \in BOOLEAN : Run_Wait(ok)

SpecTime == InitTime /\ [][NextTime]_vars

\* The stderr scenario: the decoder may also print, where a size is
\* expected, a line whose digits exceed u32.
InitStderr ==
    /\ triggers \in SeqsUpTo({"Sync"}, 1)
    /\ stream_frames = MaxFrames
    /\ fps = DefaultFps
    /\ stop_window = {}
    /\ tx_clone = "none"
    /\ InitCommon

NextStderr ==
    \/ DecoderExit
    \/ \E kind \in LineKinds \cup {"stream_overflow"}, size \in Sizes :
          Stderr_Line(kind, size)
    \/ Stderr_ReadError
    \/ Stderr_EOF
    \/ \E outcome \in {"spawn_failed", "thread_failed", "ok"} : Run_Spawn(outcome)
    \/ Run_RecvSize
    \/ Run_Read
    \/ \E result \in {"Ok", "Err"} : Run_SyncTrigger(result)
    \/ Run_ScopeEnd
    \/ \E ok \in BOOLEAN : Run_Wait(ok)

SpecStderr == InitStderr /\ [][NextStderr]_vars

\* The graceful-stop scenario: a pipeline with one trigger of each kind;
\* while it runs, `q\n` may be written to the decoder's stdin.  The worker
\* is stopped by its owner once run has returned.
InitStop ==
    /\ triggers = <<"Sync", "Async">>
    /\ stream_frames = MaxFrames
    /\ fps = DefaultFps
    /\ stop_window = {}
    /\ tx_clone = "none"
    /\ InitCommon

NextStop ==
    \/ DecoderExit
    \/ Stdin_Quit
    \/ \E kind \in LineKinds, size \in Sizes : Stderr_Line(kind, size)
    \/ Stderr_ReadError
    \/ Stderr_EOF
    \/ \E outcome \in {"spawn_failed", "thread_failed", "ok"} : Run_Spawn(outcome)
    \/ Run_RecvSize
    \/ Run_Read
    \/ \E tail \in Tails : Run_ReadShort(tail)
    \/ Run_ReadError
    \/ \E result \in {"Ok", "Err"} : Run_SyncTrigger(result)
    \/ Run_AsyncTrigger
    \/ Run_ScopeEnd
    \/ \E ok \in BOOLEAN : Run_Wait(ok)
    \/ Worker_Recv
    \/ Worker_Run("Ok")
    \/ Stop_Send
    \/ Stop_Join

\* Threads that can take a step eventually take it: the thread calling
\* run, the scoped stderr thread once its pipe is closed, and the worker.
SpecStop ==
    /\ InitStop
    /\ [][NextStop]_vars
    /\ WF_vars(Run_RecvSize)
    /\ WF_vars(Run_Read)
    /\ WF_vars(\E result \in {"Ok", "Err"} : Run_SyncTrigger(result))
    /\ WF_vars(Run_AsyncTrigger)
    /\ WF_vars(Run_ScopeEnd)
    /\ WF_vars(\E ok \in BOOLEAN : Run_Wait(ok))
    /\ WF_vars(Stderr_EOF)
    /\ WF_vars(Worker_Recv)
    /\ WF_vars(Worker_Run("Ok"))

\* The reuse scenario: pipelines with one async trigger run one after the
\* other against the same TriggerThread; pipelines and the TriggerThread
\* may be dropped, and the owner may call stop.
InitReuse ==
    /\ triggers = <<"Async">>
    /\ stream_frames = MaxFrames
    /\ fps = DefaultFps
    /\ stop_window = 0..MaxFrames
    /\ tx_clone = "none"
    /\ InitCommon

NextReuse ==
    \/ DecoderExit
    \/ \E kind \in LineKinds, size \in Sizes : Stderr_Line(kind, size)
    \/ Stderr_ReadError
    \/ Stderr_EOF
    \/ \E outcome \in {"spawn_failed", "thread_failed", "ok"} : Run_Spawn(outcome)
    \/ Run_RecvSize
    \/ Run_Read
    \/ Run_AsyncTrigger
    \/ Run_ScopeEnd
    \/ \E ok \in BOOLEAN : Run_Wait(ok)
    \/ Worker_Recv
    \/ Worker_Run("Ok")
    \/ Worker_Disconnected
    \/ Stop_Send
    \/ Stop_Join
    \/ Pipeline_Drop
    \/ Owner_Drop
    \/ Run_Restart

\* The worker thread, when it can take a step, eventually takes it.
SpecReuse ==
    /\ InitReuse
    /\ [][NextReuse]_vars
    /\ WF_vars(Worker_Recv)
    /\ WF_vars(Worker_Run("Ok"))
    /\ WF_vars(Worker_Disconnected)

\* The OCR scenario: threads that run TesseractTriggers sharing one
\* engine handle, each making ocr calls whose engine steps succeed or fail.
InitOcr ==
    /\ triggers = <<"Sync">>
    /\ stream_frames = MaxFrames
    /\ fps = DefaultFps
    /\ stop_window = {}
    /\ tx_clone = "none"
    /\ InitCommon

NextOcr ==
    \/ \E t \in OcrThreads : Ocr_Lock(t)
    \/ \E t \in OcrThreads : Ocr_Take(t)
    \/ \E t \in OcrThreads, ok \in BOOLEAN : Ocr_SetFrame(t, ok)
    \/ \E t \in OcrThreads, ok \in BOOLEAN : Ocr_GetText(t, ok)
    \/ \E t \in OcrThreads : Ocr_Unlock(t)

SpecOcr == InitOcr /\ [][NextOcr]_vars

\* How far a validated start_job gets.
StartOutcomes ==
    {"spawn_failed", "no_stdout", "stdout_thread_failed", "stderr_thread_failed", "ok"}

\* The jobs scenario: a Pipeline on which runners are spawned and jobs are
\* started and stopped.
InitJobs ==
    /\ triggers = <<"Sync">>
    /\ stream_frames = MaxFrames
    /\ fps = DefaultFps
    /\ stop_window = {}
    /\ tx_clone = "none"
    /\ InitCommon

NextJobs ==
    \/ \E id \in JobIds, runners \in SUBSET RunnerNames, outcome \in StartOutcomes :
            Job_Start(id, runners, outcome)
    \/ \E name \in RunnerNames : Pipeline_SpawnRunner(name)
    \/ \E pid \in 1..MaxProcs : Job_DecoderExit(pid)
    \/ \E id \in JobIds : Job_Stop(id)
    \/ Job_StopJoined
    \/ StopAll_Begin
    \/ \E id \in JobIds : StopAll_Next(id)
    \/ StopAll_End

SpecJobs == InitJobs /\ [][NextJobs]_vars

\* The debugger scenario: threads that register steps on one Debugger
\* which its owner may pause.
InitDebugger ==
    /\ triggers = <<"Sync">>
    /\ stream_frames = MaxFrames
    /\ fps = DefaultFps
    /\ stop_window = {}
    /\ tx_clone = "none"
    /\ InitCommon

NextDebugger ==
    \/ Debugger_Pause
    \/ \E t \in DebugThreads : Register_Step(t)
    \/ \E t \in DebugThreads, line \in {"step", "resume", "other"} : Step_Stdin(t, line)
    \/ \E t \in DebugThreads, outcome \in {"deadlock", "panic"} : Debugger_Resume(t, outcome)

SpecDebugger == InitDebugger /\ [][NextDebugger]_vars

InitImage ==
    /\ triggers = <<"Sync">>
    /\ stream_frames = MaxFrames
    /\ fps = DefaultFps
    /\ stop_window = {}
    /\ tx_clone = "none"
    /\ InitIdle
    /\ image_out = None

ImageUnchanged ==
    UNCHANGED <<cfg_vars, life_vars, ocr_vars, job_vars, dbg_vars, image_in, transform,
                child_vars, stderr_vars, run_vars, worker_vars, accepted,
                stop_vars>>

InitCrop ==
    /\ InitImage
    /\ image_in \in [width : 1..MaxSide, height : 1..MaxSide]
    /\ transform \in [left_percent : Percents, top_percent : Percents,
                      width_percent : Percents, height_percent : Percents]

\* Crop::apply(&self, image)
Crop_Apply ==
    /\ image_out = None
    /\ image_out' = Crop_apply(transform, image_in)
    /\ ImageUnchanged

SpecCrop == InitCrop /\ [][Crop_Apply]_vars

InitMinSize ==
    /\ InitImage
    /\ image_in \in [width : 1..MaxSide, height : 1..MaxSide]
    /\ transform \in [min_size : 0..MaxMinSize]

\* ensure_minimum_size(&image, min_size)
EnsureMinimumSize_Apply ==
    /\ image_out = None
    /\ image_out' = ensure_minimum_size(image_in, transform.min_size)
    /\ ImageUnchanged

SpecMinSize == InitMinSize /\ [][EnsureMinimumSize_Apply]_vars

InitThreshold ==
    /\ InitImage
    /\ image_in \in [pixels : SeqsUpTo(Pixels, MaxPixels)]
    /\ transform \in [color : Colours, threshold : Thresholds]

\* ThresholdFilter::apply(&self, image)
Threshold_Apply ==
    /\ image_out = None
    /\ image_out' = ThresholdFilter_apply(transform, image_in)
    /\ ImageUnchanged

SpecThreshold == InitThreshold /\ [][Threshold_Apply]_vars

InitCropPixels ==
    /\ InitImage
    /\ image_in \in PixelImages(MaxCropSide)
    /\ transform \in [left_percent : {0, 50}, top_percent : {0, 50},
                      width_percent : {50, 100}, height_percent : {50, 100}]

\* Crop::apply(&self, image), with the pixels
CropPixels_Apply ==
    /\ image_out = None
    /\ image_out' = Crop_apply_pixels(transform, image_in)
    /\ ImageUnchanged

SpecCropPixels == InitCropPixels /\ [][CropPixels_Apply]_vars

InitSquare ==
    /\ InitImage
    /\ image_in \in {TaggedImage(w, h) : w \in 1..MaxSquareSide,
                                         h \in 1..MaxSquareSide}
    /\ transform \in [size : 1..MaxSquareSide]

\* new_image = ensure_square(new_image)
EnsureSquare_Apply ==
    /\ image_out = None
    /\ image_out' = LET square == ensure_square(image_in)
                     IN  IF square = Panicked THEN Panicked
                         ELSE [square |-> square]
    /\ ImageUnchanged

\* new_image = ensure_size(new_image, size, size)
EnsureSize_Apply ==
    /\ DOMAIN image_out = {"square"}
    /\ image_out' = [square |-> image_out.square,
                     sized |-> ensure_size(image_out.square, transform.size,
                                           transform.size)]
    /\ ImageUnchanged

NextSquare == EnsureSquare_Apply \/ EnsureSize_Apply

SpecSquare == InitSquare /\ [][NextSquare]_vars

InitPredict ==
    /\ InitImage
    /\ image_in \in SeqsUpTo(Confidences, MaxClasses)
    /\ transform = None

\* predict(bundle, graph, tensor), from the fetched output on
Predict_Apply ==
    /\ image_out = None
    /\ image_out' = predict(image_in)
    /\ ImageUnchanged

SpecPredict == InitPredict /\ [][Predict_Apply]_vars

\* The buffer size for every pair of u32 a Stream line can carry, in a
\* build with and without overflow checks.
InitBufSize ==
    /\ InitImage
    /\ image_in \in (0..(U32Modulus - 1)) \X (0..(U32Modulus - 1))
    /\ transform \in [overflow_checks : BOOLEAN]

\* let buf_size = (output_width * output_height * CHANNELS) as usize
BufSize_Apply ==
    /\ image_out = None
    /\ image_out' = buf_size_u32(image_in[1], image_in[2],
                                 transform.overflow_checks)
    /\ ImageUnchanged

SpecBufSize == InitBufSize /\ [][BufSize_Apply]_vars

\* ------------------------------------------------------ format_seconds

\* Durations are whole milliseconds; texts are sequences of characters.
DigitChars == <<"0", "1", "2", "3", "4", "5", "6", "7", "8", "9">>

\* format!("{}", n) of an unsigned integer
RECURSIVE Decimal(_)
Decimal(n) ==
    IF n < 10 THEN <<DigitChars[n + 1]>>
    ELSE Append(Decimal(n \div 10), DigitChars[(n % 10) + 1])

\* format_seconds(seconds), for a duration of `ms` milliseconds: hours,
\* minutes and seconds are split off by truncation, what is left times
\* 1000 is rounded to the milliseconds, and the parts are printed with
\* format!("{}"), minutes and seconds padded to two digits.
format_seconds(ms) ==
    LET hours == (ms \div 1000) \div 3600
        left_h == ms - hours * 3600000
        minutes == (left_h \div 1000) \div 60
        left_m == left_h - minutes * 60000
        seconds == left_m \div 1000
        milliseconds == left_m - seconds * 1000
    IN  (IF hours > 0 THEN Decimal(hours) \o <<":">> ELSE <<>>)
        \o (IF minutes < 10 THEN <<"0">> ELSE <<>>)
        \o Decimal(minutes) \o <<":">>
        \o (IF seconds < 10 THEN <<"0">> ELSE <<>>)
        \o Decimal(seconds)
        \o (IF milliseconds > 0 THEN <<".">> \o Decimal(milliseconds) ELSE <<>>)

\* The durations format_seconds is applied to: with and without hours,
\* minutes and seconds of one and two digits, and sub-second parts of
\* one, two and three digits.
Durations ==
    {h * 3600000 + m * 60000 + sec * 1000 + f :
        h \in {0, 1}, m \in {0, 23}, sec \in {0, 9, 45}, f \in {0, 5, 50, 500, 505, 999}}

InitFormat ==
    /\ InitImage
    /\ image_in \in Durations
    /\ transform = None

FormatSeconds_Apply ==
    /\ image_out = None
    /\ image_out' = [text |-> format_seconds(image_in)]
    /\ ImageUnchanged

SpecFormat == InitFormat /\ [][FormatSeconds_Apply]_vars

InitConvert ==
    /\ InitImage
    /\ image_in \in SeqsUpTo(Bytes, MaxBytes)
    /\ transform = None

\* rgb24_to_rgba32(vec)
Rgb24ToRgba32_Apply ==
    /\ image_out = None
    /\ image_out' = LET rgba32 == rgb24_to_rgba32(image_in)
                     IN  IF rgba32 = Panicked THEN Panicked
                         ELSE [rgba32 |-> rgba32]
    /\ ImageUnchanged

\* rgba32_to_rgb24(vec) on the vector rgb24_to_rgba32 returned
Rgba32ToRgb24_Apply ==
    /\ DOMAIN image_out = {"rgba32"}
    /\ image_out' = LET rgb24 == rgba32_to_rgb24(image_out.rgba32)
                     IN  IF rgb24 = Panicked THEN Panicked
                         ELSE [rgba32 |-> image_out.rgba32, rgb24 |-> rgb24]
    /\ ImageUnchanged

NextConvert == Rgb24ToRgba32_Apply \/ Rgba32ToRgb24_Apply

SpecConvert == InitConvert /\ [][NextConvert]_vars

\* -------------------------------------------------------- properties

AsyncIds == {t \in TriggerIds : triggers[t] = "Async"}

\* Packets the worker holds or has run.
InFlight == Len(SelectSeq(queue, LAMBDA c : c.cmd = "Packet"))
              + (IF command # None /\ command.cmd = "Packet" THEN 1 ELSE 0)

RECURSIVE SumOver(_, _)
SumOver(f, S) ==
    IF S = {} THEN 0
    ELSE LET x == CHOOSE y \in S : TRUE IN f[x] + SumOver(f, S \ {x})

\* C1: in one run the k-th frame handed to a trigger carries
\* frame_num = k - 1: the index starts at 0, grows by exactly one per full
\* frame read from stdout, every trigger gets the same index for the same
\* frame, and none is skipped or repeated.
C1_FrameNumIsFrameCount ==
    /\ \A t \in TriggerIds : seen_frame[t] = calls[t] - 1
    /\ frame_num = frames_written - (IF run_pc = "dispatch" THEN 1 ELSE 0)
    /\ run_pc = "dispatch" =>
          \A t \in TriggerIds : t < trig => seen_frame[t] = frame_num

C1_Witness ==
    \E t \in TriggerIds : calls[t] = 2 /\ seen_frame[t] = 1 /\ frame_num = 2

\* C2: for every frame all registered triggers are invoked in the order of
\* registration, and a trigger that returned an error does not keep the
\* triggers after it from being invoked on that frame.
C2_RegistrationOrder ==
    /\ run_pc = "dispatch" =>
          \A t \in TriggerIds :
              calls[t] = IF t < trig THEN frame_num + 1 ELSE frame_num
    /\ run_pc # "dispatch" => \A t \in TriggerIds : calls[t] = frame_num

C2_Witness ==
    /\ Len(triggers) = 2
    /\ last_result[1] = "Err"
    /\ calls[2] = calls[1]
    /\ seen_frame[2] = seen_frame[1]
    /\ seen_frame[1] = 1

\* C3: trigger errors never halt the pipeline: whatever the triggers
\* returned, once the stream has ended every trigger has been invoked once
\* for every frame the decoder delivered, and run returns Ok (when waiting
\* for the child succeeds).
C3_TriggerErrorsNeverHalt ==
    /\ scope_result \notin {"Ok", "none"} => frames_written = 0
    /\ scope_result = "Ok" => \A t \in TriggerIds : calls[t] = frames_written
    /\ (run_pc = "done" /\ output_dims # None /\ run_result # "ErrWait")
          => run_result = "Ok"

C3_Witness ==
    /\ run_pc = "done"
    /\ run_result = "Ok"
    /\ frames_written = 2
    /\ \E t \in TriggerIds : last_result[t] = "Err" /\ calls[t] = 2

\* C4: before run has received the (W, H) pair published by the stderr
\* thread it has allocated no buffer, read nothing from stdout and invoked
\* no trigger; the pair it works with is the published one.
C4_NothingBeforeSize ==
    /\ output_dims = None =>
          /\ buf_size = None
          /\ frames_written = 0
          /\ run_pc \notin {"read", "dispatch"}
          /\ \A t \in TriggerIds : calls[t] = 0
    /\ output_dims # None =>
          /\ output_dims = output_size
          /\ buf_size = output_dims[1] * output_dims[2] * CHANNELS

C4_Witness ==
    /\ output_dims # None
    /\ frames_written >= 1
    /\ \E t \in TriggerIds : calls[t] >= 1

\* C5: when the decoder's stderr closes without a size having been
\* published, run fails with the "exited before sending output size"
\* error, and no trigger has been invoked at any point of that run.
C5_NoSizeFails ==
    (stderr_pc = "exited" /\ output_size = None) =>
        /\ \A t \in TriggerIds : calls[t] = 0
        /\ frames_written = 0
        /\ run_result \in {"none", "ErrNoSize"}
        /\ run_pc = "done" => run_result = "ErrNoSize"

C5_Witness ==
    /\ stderr_pc = "exited"
    /\ output_size = None
    /\ run_pc = "done"
    /\ run_result = "ErrNoSize"
    /\ Len(triggers) > 0

\* C6: the worker runs packets one at a time in the order they were
\* enqueued: each inner trigger sees frame_num 0, 1, 2, ... with none
\* skipped, and async triggers sharing the worker run in (frame index,
\* registration order) order.
C6_WorkerFifo ==
    /\ \A t \in AsyncIds : ran_frame[t] = ran[t] - 1
    /\ \A t, u \in AsyncIds : t < u => (ran[u] <= ran[t] /\ ran[t] <= ran[u] + 1)
    /\ ran_last[2] \in AsyncIds =>
          /\ ran_frame[ran_last[2]] = ran_last[1]
          /\ \A u \in AsyncIds :
                ran[u] = ran_last[1] + (IF u <= ran_last[2] THEN 1 ELSE 0)

C6_Witness ==
    /\ triggers = <<"Async", "Async">>
    /\ ran[1] = 2
    /\ ran[2] = 2
    /\ ran_last = <<1, 2>>

\* C7: the channel never holds more than 100 commands; while it is full
\* and the worker lives, AsyncTrigger::on_frame cannot return (the
\* dispatcher waits), and no packet accepted is lost or duplicated.
C7_QueueBounded ==
    /\ Len(queue) <= QueueCapacity
    /\ (run_pc = "dispatch" /\ triggers[trig] = "Async" /\ rx_alive
          /\ Len(queue) = QueueCapacity) => ~ENABLED Run_AsyncTrigger
    /\ rx_alive => accepted = SumOver(ran, AsyncIds) + InFlight

C7_Witness ==
    /\ run_pc = "dispatch"
    /\ triggers[trig] = "Async"
    /\ rx_alive
    /\ Len(queue) = QueueCapacity
    /\ frame_num = QueueCapacity

\* C8: a call of AsyncTrigger::on_frame returns Err exactly when the
\* Receiver is gone; when it returns Ok it has put exactly one packet, this
\* frame with this trigger, at the end of the channel, and otherwise none;
\* it never runs the inner trigger on the calling thread.
C8_AsyncOnFrame ==
    [][(run_pc = "dispatch" /\ triggers[trig] = "Async" /\ calls' # calls) =>
          /\ (last_result'[trig] = "Err") = ~rx_alive
          /\ (last_result'[trig] = "Ok") = rx_alive
          /\ rx_alive => queue' = Append(queue, Packet(trig, frame_num))
          /\ ~rx_alive => queue' = queue
          /\ ran' = ran
          /\ ran_frame' = ran_frame
          /\ command' = command]_vars

C8_Witness ==
    /\ \E t \in AsyncIds : last_result[t] = "Err" /\ calls[t] = 2
    /\ ~rx_alive
    /\ accepted = 1

\* C9: for an async trigger whose inner trigger counts its invocations:
\* when stop is called after the pipeline has completed (no Stop was sent
\* before) and has returned, the count equals the number of frames the
\* dispatcher delivered.
C9_AllRunAfterStop ==
    (stop_pc = "done" /\ ~early_stop) =>
        /\ run_pc = "done"
        /\ \A t \in AsyncIds : ran[t] = frames_written /\ ran[t] = calls[t]

C9_Witness ==
    /\ stop_pc = "done"
    /\ stop_result = "Ok"
    /\ ~early_stop
    /\ \E t \in AsyncIds : ran[t] = 2

\* C10 (as claimed): stopping a worker returns Ok, also when the worker has
\* already terminated and the Stop cannot be sent.
C10_StopAlwaysOk ==
    stop_pc = "done" => stop_result = "Ok"

C12_WorkerOutlivesPipeline ==
    /\ [](thread_pc = "exited" => (stop_pc \in {"join", "done"} \/ AllSendersDropped))
    /\ []((run_pc = "done" /\ stop_pc = "idle") => (rx_alive /\ thread_pc # "exited"))
    /\ [](rx_alive => accepted = SumOver(ran, AsyncIds) + InFlight)
    /\ (AllSendersDropped ~> thread_pc = "exited")

C12_Witness ==
    /\ runs = 2
    /\ calls[1] = 2
    /\ ran[1] = 4
    /\ AllSendersDropped
    /\ stop_pc = "dropped"
    /\ thread_pc = "exited"

\* C13: every frame handed to a trigger holds exactly W * H * 3 bytes for
\* the published (W, H), and is the next whole block of the decoder's
\* stdout (frame k starts at byte k * W * H * 3); a trailing block shorter
\* than W * H * 3 bytes is consumed but never handed to a trigger, and the
\* loop ends with Ok.
C13_FramesAreWholeBlocks ==
    /\ run_pc = "dispatch" =>
          /\ image # None
          /\ <<image.width, image.height>> = output_size
          /\ image.len = output_size[1] * output_size[2] * CHANNELS
          /\ image.offset = frame_num * image.len
          /\ read_pos = image.offset + image.len
    /\ output_dims # None =>
          /\ read_pos - frames_written * buf_size \in 0..(buf_size - 1)
          /\ \A t \in TriggerIds : calls[t] <= frames_written
          /\ read_pos > frames_written * buf_size =>
                /\ run_pc \in {"join", "wait", "done"}
                /\ scope_result = "Ok"
                /\ \A t \in TriggerIds : calls[t] = frames_written

C13_Witness ==
    /\ run_pc = "done"
    /\ run_result = "Ok"
    /\ output_dims = <<2, 1>>
    /\ read_pos = 2 * 6 + 5
    /\ \E t \in TriggerIds : calls[t] = 2 /\ seen_frame[t] = 1

\* C14 (as claimed): a read error on the decoder's stdout other than end
\* of stream, or a frame-geometry mismatch, ends the dispatch loop and makes
\* run return an error.
C14_DispatcherErrorsSurface ==
    (run_pc = "done" /\ (read_failed \/ scope_result = "ErrMismatch"))
        => run_result \notin {"none", "Ok"}

\* C15 (as claimed): whenever no ocr call is under way the engine handle
\* is in its slot: every call, also one that failed at set-frame or at
\* get-text, has put it back, and no call finds the slot empty.
C15_HandleBackAfterOcr ==
    /\ (\A t \in OcrThreads : ocr_pc[t] \in {"idle", "locked"}) => slot = "Some"
    /\ \A t \in OcrThreads : ocr_result[t] # "ErrMissing"

C17_FailedStartLeavesNothing ==
    [][((Len(procs') > Len(procs) \/ start_result' # start_result)
           /\ start_result' \notin {"none", "Ok"})
          => (jobs' = jobs /\ Running' \subseteq Running)]_vars

\* C18 (as claimed): for every Crop with percentages in [0, 100] and
\* every W x H image the rectangle Crop::apply computes satisfies
\* x1 < x2 <= W and y1 < y2 <= H, and the result has size
\* (x2 - x1, y2 - y1).
C18_CropRectangleInside ==
    image_out # None =>
        /\ Crop_x1(image_in, transform) < Crop_x2(image_in, transform)
        /\ Crop_x2(image_in, transform) <= image_in.width
        /\ Crop_y1(image_in, transform) < Crop_y2(image_in, transform)
        /\ Crop_y2(image_in, transform) <= image_in.height
        /\ image_out = [width |-> Crop_x2(image_in, transform) - Crop_x1(image_in, transform),
                        height |-> Crop_y2(image_in, transform) - Crop_y1(image_in, transform)]

Abs(n) == IF n < 0 THEN -n ELSE n
Smaller(a, b) == IF a < b THEN a ELSE b
Larger(a, b) == IF a < b THEN b ELSE a

\* C19 (as claimed): the image ensure_minimum_size returns has its smaller
\* side at least min_size, and its aspect ratio is the input's to within
\* one pixel (one of its sides is within one pixel of what the other side
\* and the input's ratio give).
C19_MinimumSizeKeepsRatio ==
    image_out # None =>
        /\ Smaller(image_out.width, image_out.height) >= transform.min_size
        /\ Abs(image_out.width * image_in.height - image_out.height * image_in.width)
              <= Larger(image_in.width, image_in.height)

\* C20 (as claimed): applying the threshold filter twice yields the same
\* image as applying it once.
C20_ThresholdIdempotent ==
    image_out # None => ThresholdFilter_apply(transform, image_out) = image_out

\* The filter leaves pure white white and pure black black.
KeepsBlackAndWhite(f) ==
    /\ delta_e[<<White, f.color>>] >= f.threshold * 100
    /\ delta_e[<<Black, f.color>>] < f.threshold * 100

\* C20 (amended): the filter returns an image of the same number of
\* pixels, each (v, v, v, 255) with v 0 or 255; a second application
\* yields the same image exactly when each of these pixels is mapped to
\* itself, which holds for every image when the target colour and the
\* threshold leave white at or above the threshold and black below it.
C20_ThresholdIdempotentWhenStable ==
    image_out # None =>
        LET twice == ThresholdFilter_apply(transform, image_out)
            n == Len(image_out.pixels)
        IN  /\ n = Len(image_in.pixels)
            /\ \A i \in 1..n :
                  image_out.pixels[i] \in {<<0, 0, 0, 255>>, <<255, 255, 255, 255>>}
            /\ (twice = image_out) <=>
                  \A i \in 1..n :
                      (image_out.pixels[i][1] = 255) =
                          AtLeast(<<image_out.pixels[i][1], image_out.pixels[i][2],
                                    image_out.pixels[i][3]>>,
                                  transform.color, transform.threshold)
            /\ KeepsBlackAndWhite(transform) => twice = image_out

C20_Witness ==
    /\ image_out # None
    /\ KeepsBlackAndWhite(transform)
    /\ transform.color = Dark
    /\ transform.threshold = 42
    /\ image_in.pixels = <<<<255, 0, 0, 0>>, <<0, 0, 0, 255>>>>
    /\ image_out.pixels = <<<<255, 255, 255, 255>>, <<0, 0, 0, 255>>>>

\* C21: on a byte vector whose length is a multiple of 3 neither
\* conversion panics, rgb24_to_rgba32 returns 4/3 of the input length with
\* every fourth byte 255, and rgba32_to_rgb24 of that vector is the input.
C21_RoundTripIsIdentity ==
    (image_out # None /\ Len(image_in) % 3 = 0) =>
        /\ image_out # Panicked
        /\ Len(image_out.rgba32) * 3 = Len(image_in) * 4
        /\ \A k \in 1..Len(image_out.rgba32) :
              k % 4 = 0 => image_out.rgba32[k] = 255
        /\ "rgb24" \in DOMAIN image_out => image_out.rgb24 = image_in

C21_Witness ==
    /\ image_in = <<7, 0, 255, 255, 7, 0>>
    /\ "rgb24" \in DOMAIN image_out
    /\ image_out.rgba32 = <<7, 0, 255, 255, 255, 7, 0, 255>>
    /\ image_out.rgb24 = image_in

\* C22: a Crop with left 0, top 0, width 100 and height 100 returns an
\* image with the dimensions and every pixel of the input, for square and
\* non-square images alike.
C22_FullCropIsIdentity ==
    (image_out # None /\ transform = FullCrop) => image_out = image_in

C22_Witness ==
    /\ transform = FullCrop
    /\ image_in.width = 1
    /\ image_in.height = 2
    /\ image_in.pixels[<<0, 0>>] # image_in.pixels[<<0, 1>>]
    /\ image_out = image_in

\* The square image sq is the part of img at offset (ox, oy).
SquareAt(sq, img, ox, oy) ==
    \A p \in Coordinates(sq.width, sq.height) :
        sq.pixels[p] = img.pixels[<<ox + p[1], oy + p[2]>>]

\* The margins before and after a part of length side at offset o of an
\* extent differ by at most one pixel.
Centred(o, side, extent) == Abs(o - (extent - side - o)) <= 1

\* C23: ensure_square does not panic; on a square image it returns the
\* image, on a non-square one the centred square of side min(W, H); and
\* ensure_size(_, s, s) of its result is exactly s x s.
C23_SquareThenSized ==
    image_out # None =>
        /\ image_out # Panicked
        /\ LET sq == image_out.square
                side == Smaller(image_in.width, image_in.height)
            IN  /\ sq.width = side
                /\ sq.height = side
                /\ is_square(image_in) => sq = image_in
                /\ \E ox \in 0..(image_in.width - side),
                       oy \in 0..(image_in.height - side) :
                        /\ Centred(ox, side, image_in.width)
                        /\ Centred(oy, side, image_in.height)
                        /\ SquareAt(sq, image_in, ox, oy)
        /\ "sized" \in DOMAIN image_out =>
              /\ image_out.sized.width = transform.size
              /\ image_out.sized.height = transform.size

C23_Witness ==
    /\ image_in.width = 4
    /\ image_in.height = 1
    /\ transform.size = 2
    /\ "sized" \in DOMAIN image_out
    /\ image_out.square.pixels[<<0, 0>>] = <<1, 0, 0, 255>>
    /\ image_out.sized = [width |-> 2, height |-> 2]

\* C24: for a non-empty output of length K the prediction's class_index is
\* in [0, K), no element of the output is greater than output[class_index],
\* and confidence is that element.
C24_PredictionIsArgmax ==
    (image_out # None /\ Len(image_in) > 0) =>
        /\ image_out # Panicked
        /\ image_out.class_index \in 0..(Len(image_in) - 1)
        /\ \A k \in 1..Len(image_in) :
              image_in[k] <= image_in[image_out.class_index + 1]
        /\ image_out.confidence = image_in[image_out.class_index + 1]

C24_Witness ==
    /\ image_in = <<1, 3, 2>>
    /\ image_out = [class_index |-> 1, confidence |-> 3]

\* C25: while a frame is dispatched to the triggers, its timestamp times
\* the configured fps is its frame_num, and the trigger that has just run
\* saw that frame.
C25_TimestampIsFrameNumOverFps ==
    run_pc = "dispatch" =>
        /\ timestamp # None
        /\ timestamp[1] * fps = frame_num * timestamp[2]
        /\ \A t \in 1..Len(triggers) :
              (t < trig /\ triggers[t] = "Sync") => seen_frame[t] = frame_num

C25_Witness ==
    /\ run_pc = "dispatch"
    /\ fps = 3
    /\ frame_num = 2
    /\ timestamp = <<2, 3>>

\* C26: a step taken in the prelude publishes no size; the step that
\* enters the output section publishes none either; a published size is
\* the one carried by a line read inside the output section; and the
\* parser never leaves the output section.
C26_SizeOnlyFromOutputSection ==
    [][/\ current_section = "" =>
             (output_size' = output_size /\ Len(size_chan') <= Len(size_chan))
       /\ current_section' # current_section =>
             (output_size' = output_size /\ size_chan' = size_chan)
       /\ Len(size_chan') > Len(size_chan) =>
             /\ current_section = "Output"
             /\ output_size' \in Sizes
             /\ size_chan' = Append(size_chan, output_size')
       /\ current_section = "Output" => current_section' = "Output"]_vars

C26_Witness ==
    /\ current_section = "Output"
    /\ output_size = <<2, 1>>
    /\ size_chan = <<output_size>>
    /\ run_pc = "recv"

\* C27: over a run at most one size is sent on the size channel, the one
\* the thread remembers; once it is remembered it never changes and
\* nothing further is sent, whatever lines follow.
C27_AtMostOneSize ==
    /\ [](/\ Len(size_chan) + (IF output_dims # None THEN 1 ELSE 0) <= 1
          /\ size_chan # <<>> => size_chan = <<output_size>>
          /\ output_dims # None => output_dims = output_size)
    /\ [][output_size # None =>
             (output_size' = output_size /\ Len(size_chan') <= Len(size_chan))]_vars

C27_Witness ==
    /\ output_size = <<1, 1>>
    /\ output_dims = output_size
    /\ size_chan = <<>>
    /\ stderr_pc = "reading"
    /\ frames_written >= 1

\* C28 (as claimed): every line the stderr thread has read was forwarded
\* to the log; the thread is still reading while the decoder runs, also
\* after the size was published; and it has terminated only if the
\* decoder's stderr is at end of file.
C28_StderrDrainedAndLogged ==
    /\ unlogged = 0
    /\ (ffmpeg_child = "running" /\ stderr_pc # "none") => stderr_pc = "reading"
    /\ stderr_pc \in {"exited", "panicked"} =>
          ffmpeg_child \in {"exited", "killed", "reaped"}

\* C29 (as claimed): no line that fails to be read or parsed ends the
\* stderr thread or fails the pipeline: the thread never ends in a panic
\* and run never panics.
C29_StderrErrorsSkipLine ==
    /\ stderr_pc # "panicked"
    /\ run_result # "Panic"

\* C30 (as claimed): whenever run has returned with the decoder spawned,
\* with Ok or with an error, the stderr thread is no longer running and
\* the decoder has exited and has been waited for.
C30_RunReturnsAfterThreadAndChild ==
    (run_pc = "done" /\ ffmpeg_child # "none") =>
        /\ stderr_pc # "reading"
        /\ ffmpeg_child = "reaped"

\* C31 (as claimed): for every pair (W, H) of u32 values the buffer size
\* the dispatcher computes is the product W * H * 3.
C31_BufferIsExactProduct ==
    image_out # None =>
        image_out = [buf_size |-> image_in[1] * image_in[2] * CHANNELS]

\* C32: an error of an inner trigger on the worker is printed and nothing
\* else: the worker leaves its loop only on a Stop command, the step that
\* prints the error leaves the dispatcher and the queue as they are and
\* returns the worker to recv, the dispatcher's sends keep succeeding, and
\* once stop has returned every accepted packet was executed, the ones
\* behind a failed one included.
C32_InnerErrorOnlyLogged ==
    /\ [](/\ scope_result # "ErrTrigger"
          /\ \A t \in DOMAIN last_result : last_result[t] \in {"none", "Ok"}
          /\ Len(inner_log) <= ran[1]
          /\ (stop_pc = "done" /\ stop_result = "Ok") => ran[1] = accepted)
    /\ [][/\ (thread_pc = "run" /\ thread_pc' = "exited") => command.cmd = "Stop"
          /\ inner_log' # inner_log =>
                /\ thread_pc' = "recv"
                /\ rx_alive'
                /\ UNCHANGED <<run_vars, queue, accepted, stop_vars>>]_vars

\* The inner trigger failed on frame 0 and the worker then executed the
\* packet of frame 1; stop returned Ok.
C32_Witness ==
    /\ inner_log = <<0>>
    /\ ran_last = <<1, 1>>
    /\ ran[1] = 2
    /\ stop_pc = "done"
    /\ stop_result = "Ok"

\* C33 (as claimed): however the dispatcher's sends and
\* TriggerThread::stop interleave, once the worker has exited every packet
\* for which AsyncTrigger::on_frame returned Ok has been executed.
C33_AcceptedPacketsExecuted ==
    thread_pc = "exited" => accepted = SumOver(ran, AsyncIds)

\* The dispatcher is inside AsyncTrigger::on_frame, the channel is full
\* and the worker still holds the Receiver: the send is waiting.
SendBlocked ==
    /\ run_pc = "dispatch"
    /\ triggers[trig] = "Async"
    /\ rx_alive
    /\ Len(queue) = QueueCapacity

\* C34: the dispatcher never stays blocked on a worker.  A waiting send
\* is always followed by the dispatcher going on to the next frame,
\* whether the worker makes room or exits on a Stop; and a send that
\* finds the Receiver gone returns Err at once, puts nothing in the
\* channel, does not end the run, and the dispatcher moves on to the next
\* frame.
C34_BlockedSendReturns ==
    /\ SendBlocked ~> run_pc = "read"
    /\ []((run_pc = "dispatch" /\ ~rx_alive) => ENABLED Run_AsyncTrigger)
    /\ [][(run_pc = "dispatch" /\ ~rx_alive /\ calls' # calls) =>
            /\ last_result'[trig] = "Err"
            /\ queue' = queue
            /\ accepted' = accepted
            /\ run_pc' = "read"
            /\ frame_num' = frame_num + 1
            /\ scope_result' = scope_result]_vars

\* The send of frame 99 is waiting on a full channel whose first command
\* is the Stop: the worker is about to exit under the blocked dispatcher.
C34_Witness ==
    /\ SendBlocked
    /\ queue[1] = StopCommand
    /\ frame_num = QueueCapacity - 1

\* C35: a start_job call with an id that is in the job table returns
\* AlreadyExists, and one with a new id and a config without triggers
\* returns InvalidInput; start_job returns these two errors in no other
\* case, and such a call spawns no process and no thread and leaves the
\* table as it was, so the job that holds the id keeps its decoder.
C35_ValidationBeforeSpawn ==
    [][\A id \in JobIds, runners \in SUBSET RunnerNames, outcome \in StartOutcomes :
          Job_Start(id, runners, outcome) =>
              /\ jobs[id] # 0 => start_result' = "ErrAlreadyExists"
              /\ (jobs[id] = 0 /\ runners = {}) => start_result' = "ErrNoTriggers"
              /\ (jobs[id] = 0 /\ runners # {}) =>
                    start_result' \notin {"ErrAlreadyExists", "ErrNoTriggers"}
              /\ (jobs[id] # 0 \/ runners = {}) =>
                    /\ jobs' = jobs
                    /\ procs' = procs
                    /\ runner_threads' = runner_threads]_vars

\* start_job was called with the id of the one job there is: it returned
\* AlreadyExists, and the job's decoder is the only process and runs.
C35_Witness ==
    /\ start_result = "ErrAlreadyExists"
    /\ jobs["a"] = 1
    /\ procs = <<"running">>

\* C36: no runner name ever has more than one thread; once a name has
\* its thread no spawn_runner or start_job changes that; and a start_job
\* that returns Ok leaves exactly one thread for each of its runners.
C36_OneThreadPerRunner ==
    /\ [](\A name \in RunnerNames : runner_threads[name] <= 1)
    /\ [][\A name \in RunnerNames :
            runner_threads[name] >= 1 => runner_threads'[name] = runner_threads[name]]_vars
    /\ [][\A id \in JobIds, runners \in SUBSET RunnerNames :
            (Job_Start(id, runners, "ok") /\ jobs[id] = 0) =>
                \A name \in runners : runner_threads'[name] = 1]_vars

\* Two jobs run and the Pipeline has a single runner thread: both jobs'
\* triggers are served by it.
C36_Witness ==
    /\ jobs["a"] # 0
    /\ jobs["b"] # 0
    /\ jobs["a"] \in Running
    /\ jobs["b"] \in Running
    /\ runner_threads["tensorflow"] = 1
    /\ runner_threads["tesseract"] = 0

\* C37 (as claimed): stop_all_jobs returns, and when it has ended the
\* job table is empty.
C37_StopAllLeavesTableEmpty ==
    [][(stop_all_result = "running" /\ stop_all_result' # "running") =>
          /\ stop_all_result' = "Ok"
          /\ \A id \in JobIds : jobs'[id] = 0]_vars

\* C38 (as claimed): a thread that entered `resume` at a registered step
\* gets the state set to Resumed and returns from register_step: no thread
\* is left waiting for the debugger lock for ever, and none panics on it.
C38_ResumeReturns ==
    \A t \in DebugThreads : dbg_pc[t] \notin {"blocked", "panicked"}

DigitValue(c) == CHOOSE v \in 0..9 : DigitChars[v + 1] = c

\* The place of the point in a text, 0 when it has none.
PointAt(text) ==
    IF \E i \in 1..Len(text) : text[i] = "."
    THEN CHOOSE i \in 1..Len(text) : text[i] = "."
    ELSE 0

\* The seconds that the fields of [H:]MM:SS denote.
RECURSIVE ClockSeconds(_, _, _)
ClockSeconds(text, total, field) ==
    IF text = <<>> THEN total + field
    ELSE IF Head(text) = ":" THEN ClockSeconds(Tail(text), (total + field) * 60, 0)
    ELSE ClockSeconds(Tail(text), total, field * 10 + DigitValue(Head(text)))

\* The milliseconds that digits after a point denote as a decimal
\* fraction of a second: .5 is 500, .05 is 50, .005 is 5.
RECURSIVE FractionMillis(_, _)
FractionMillis(digits, weight) ==
    IF digits = <<>> THEN 0
    ELSE DigitValue(Head(digits)) * weight + FractionMillis(Tail(digits), weight \div 10)

\* A printed time read back, in milliseconds.
ReadBack(text) ==
    IF PointAt(text) = 0 THEN ClockSeconds(text, 0, 0) * 1000
    ELSE ClockSeconds(SubSeq(text, 1, PointAt(text) - 1), 0, 0) * 1000
         + FractionMillis(SubSeq(text, PointAt(text) + 1, Len(text)), 100)

\* C39 (as claimed): the text format_seconds prints, read back as
\* [H:]MM:SS[.fraction] with the digits after the point a decimal
\* fraction, is the duration it was given, to the millisecond; and
\* 1 h 23 min 45.5 s prints as "1:23:45.5".
C39_PrintedTimeReadsBack ==
    image_out # None =>
        /\ ReadBack(image_out.text) = image_in
        /\ image_in = 5025500 =>
              image_out.text = <<"1", ":", "2", "3", ":", "4", "5", ".", "5">>

====
